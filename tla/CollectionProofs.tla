---------------------------- MODULE CollectionProofs ----------------------------
(* The hash map of Data Structures And Algorithms, HW6 (HashMap.tla), for    *)
(* any keys, hashes and values, and the task manager on a binary heap of     *)
(* HW5 (TaskManager.tla), for any configuration files and number of tasks.   *)
(*   The length of a table is a prime, so there is some number theory first. *)
(* The loops of both programs are recursive functions in the models; what    *)
(* is shown of every pass goes by the least pass that would be an exception. *)
EXTENDS ProgramsProofs

(* Division with remainder. *)
Divides(d, n) == \E k \in Int : n = k * d

LEMMA Remainders ==
  ASSUME NEW d \in Nat, d > 0, NEW n \in Int
  PROVE  /\ n \div d \in Int /\ n % d \in 0 .. d - 1 /\ n = (n \div d) * d + (n % d)
OBVIOUS

LEMMA MultipleRemainder ==
  ASSUME NEW d \in Nat, d > 0, NEW n \in Int
  PROVE  n % d = 0 <=> Divides(d, n)
<1>1. n % d = 0 => Divides(d, n) 
  <2>1. n \div d \in Int /\ n = (n \div d) * d + (n % d) BY Remainders
  <2> QED BY <2>1 DEF Divides
<1>2. ASSUME Divides(d, n) PROVE n % d = 0
  <2>1. PICK k \in Int : n = k * d BY <1>2 DEF Divides
  <2>2. PICK q \in Int, r \in 0 .. d - 1 : n = q * d + r /\ n % d = r
    BY Remainders
  <2>3. r = (k - q) * d BY <2>1, <2>2
  <2>4. k - q = 0
    <3>1. k - q >= 1 => (k - q) * d >= d OBVIOUS
    <3>2. k - q <= -1 => (k - q) * d <= - d OBVIOUS
    <3> QED BY <2>3, <3>1, <3>2
  <2> QED BY <2>2, <2>3, <2>4
<1> QED BY <1>1, <1>2

LEMMA DividesDifference ==
  ASSUME NEW d \in Int, NEW a \in Int, NEW b \in Int, Divides(d, a), Divides(d, b)
  PROVE  Divides(d, a - b)
<1>1. PICK j \in Int : a = j * d BY DEF Divides
<1>2. PICK k \in Int : b = k * d BY DEF Divides
<1>3. a - b = (j - k) * d /\ j - k \in Int BY <1>1, <1>2
<1> QED BY <1>3 DEF Divides

LEMMA DividesProduct ==
  ASSUME NEW d \in Int, NEW e \in Int, NEW k \in Int, Divides(d, e)
  PROVE  Divides(d, k * e)
<1>1. PICK j \in Int : e = j * d BY DEF Divides
<1>2. k * e = (k * j) * d /\ k * j \in Int BY <1>1
<1> QED BY <1>2 DEF Divides

LEMMA DividesTransitive ==
  ASSUME NEW d \in Int, NEW e \in Int, NEW n \in Int, Divides(d, e), Divides(e, n)
  PROVE  Divides(d, n)
<1>1. PICK k \in Int : n = k * e BY DEF Divides
<1> QED BY <1>1, DividesProduct

LEMMA DivisorBound ==
  ASSUME NEW d \in Nat, NEW n \in Nat, n > 0, Divides(d, n)
  PROVE  d > 0 /\ d <= n /\ \E k \in Nat : k > 0 /\ n = k * d
<1>1. PICK k \in Int : n = k * d BY DEF Divides
<1>2. k > 0 /\ d > 0 BY <1>1
<1>3. d <= n BY <1>1, <1>2
<1> QED BY <1>1, <1>2, <1>3

LEMMA SameRemainder ==
  ASSUME NEW d \in Nat, d > 0, NEW a \in Int, NEW b \in Int, a % d = b % d
  PROVE  Divides(d, a - b)
<1>1. a = (a \div d) * d + (a % d) /\ b = (b \div d) * d + (b % d)
      /\ a \div d \in Int /\ b \div d \in Int /\ a % d \in Int BY Remainders
<1>2. PICK q \in Int, s \in Int, r \in Int : a = q * d + r /\ b = s * d + r BY <1>1
<1>3. a - b = (q - s) * d /\ q - s \in Int BY <1>2
<1> QED BY <1>3 DEF Divides

(* What trial division finds to be prime has no divisors. *)
LEMMA PrimeHasNoDivisors ==
  ASSUME NEW n \in Nat, n % 2 = 1, Map!IsPrime(n), NEW d \in Nat, d > 1, Divides(d, n)
  PROVE  d = n
<1> DEFINE I == {x \in Nat : x > 1 /\ Divides(x, n)}
<1>1. n > 1 /\ (n > 3 => n % 3 # 0) BY DEF Map!IsPrime
<1>2. PICK e \in I : \A y \in I : e <= y
  <2>1. I \in SUBSET Nat /\ I # {} OBVIOUS
  <2> HIDE DEF I
  <2> QED BY <2>1, Least
<1>3. e \in Nat /\ e > 1 /\ Divides(e, n) OBVIOUS
<1>4. \A y \in Nat : y > 1 /\ Divides(y, n) => e <= y BY <1>2
<1> HIDE DEF I
<1>5. CASE e = n
  BY <1>1, <1>4, <1>5, DivisorBound
<1>6. CASE e # n
  <2>1. PICK k \in Nat : k > 0 /\ n = k * e BY <1>1, <1>3, DivisorBound
  <2>2. k > 1 BY <1>3, <1>6, <2>1
  <2>3. Divides(k, n) BY <2>1, <1>3 DEF Divides
  <2>4. e <= k BY <1>4, <2>2, <2>3
  <2>5. e * e <= n /\ e < n BY <1>3, <2>1, <2>2, <2>4
  <2>6. ASSUME NEW y \in Nat, y > 1, y < e PROVE ~Divides(y, e)
    BY <1>3, <1>4, <2>6, DividesTransitive
  <2>7. ~Divides(2, n) 
    BY MultipleRemainder
  <2>8. ~Divides(3, n) 
    <3>1. SUFFICES ASSUME Divides(3, n) PROVE FALSE OBVIOUS
    <3>2. n = 3
      BY <1>1, <3>1, MultipleRemainder, DivisorBound
    <3>3. e <= 3 BY <1>4, <3>1
    <3> QED BY <2>5, <1>3, <3>2
  <2>9. e # 2 /\ e # 3 BY <1>3, <2>7, <2>8
  <2>10. ~Divides(2, e) /\ ~Divides(3, e) BY <1>3, <2>7, <2>8, DividesTransitive
  <2>11. e % 2 # 0 /\ e % 3 # 0 BY <1>3, <2>10, MultipleRemainder
  <2>12. n % e = 0 BY <1>3, MultipleRemainder
  <2>13. CASE \E j \in Nat : e = 6 * j - 1
    <3>1. PICK j \in Nat : e = 6 * j - 1 BY <2>13
    <3>2. j \in 1 .. n BY <1>3, <2>5, <3>1
    <3>3. e \in {6 * i - 1 : i \in 1 .. n} BY <3>1, <3>2
    <3> QED BY <2>5, <2>12, <3>3 DEF Map!IsPrime
  <2>14. CASE \E j \in Nat : e = 6 * j + 1
    <3>1. PICK j \in Nat : e = 6 * j + 1 BY <2>14
    <3> DEFINE x == 6 * j - 1
    <3>2. j \in 1 .. n BY <1>3, <2>5, <3>1
    <3>3. x \in {6 * i - 1 : i \in 1 .. n} BY <3>2
    <3>4. x + 2 = e /\ x \in Nat BY <3>1, <3>2
    <3> HIDE DEF x
    <3>5. x * x <= e * e BY <3>4, <1>3
    <3>6. x * x <= n BY <3>4, <3>5, <2>5, <1>3
    <3> QED BY <2>12, <3>3, <3>4, <3>6 DEF Map!IsPrime
  <2>15. (\E j \in Nat : e = 6 * j - 1) \/ (\E j \in Nat : e = 6 * j + 1)
    <3>1. PICK j \in Int, r \in 0 .. 5 : e = j * 6 + r
      <4>1. e \div 6 \in Int /\ e % 6 \in 0 .. 5 /\ e = (e \div 6) * 6 + (e % 6) BY <1>3
      <4> QED BY <4>1
    <3>2. j \in Nat BY <1>3, <3>1
    <3>3. r # 0 /\ r # 2 /\ r # 4
      <4>1. e = (3 * j) * 2 + r BY <3>1
      <4>2. r = 0 => e = (3 * j) * 2 BY <4>1
      <4>3. r = 2 => e = (3 * j + 1) * 2 BY <4>1
      <4>4. r = 4 => e = (3 * j + 2) * 2 BY <4>1
      <4>5. 3 * j \in Int /\ 3 * j + 1 \in Int /\ 3 * j + 2 \in Int BY <3>2
      <4> QED BY <2>10, <4>2, <4>3, <4>4, <4>5 DEF Divides
    <3>4. r # 3
      <4>1. r = 3 => e = (2 * j + 1) * 3 BY <3>1
      <4>2. 2 * j + 1 \in Int BY <3>2
      <4> QED BY <2>10, <4>1, <4>2 DEF Divides
    <3>5. r = 1 => e = 6 * j + 1 BY <3>1
    <3>6. r = 5 => e = 6 * (j + 1) - 1 /\ j + 1 \in Nat BY <3>1, <3>2
    <3>7. r = 1 \/ r = 5 BY <3>1, <3>3, <3>4
    <3>8. CASE r = 1 BY <3>2, <3>5, <3>8
    <3>9. CASE r = 5 BY <3>6, <3>9
    <3> QED BY <3>7, <3>8, <3>9
  <2> QED BY <2>13, <2>14, <2>15
<1> QED BY <1>5, <1>6

(* A prime that divides a product divides a factor. *)
Prime(p) == p > 1 /\ \A d \in Nat : d > 1 /\ Divides(d, p) => d = p

LEMMA Euclid ==
  ASSUME NEW p \in Nat, Prime(p), NEW a \in Nat, NEW b \in Nat, Divides(p, a * b), ~Divides(p, a)
  PROVE  Divides(p, b)
<1> DEFINE I == {x \in Nat : x > 0 /\ Divides(p, x * b)}
<1>1. p \in I
  BY DEF Divides, Prime
<1>2. a \in I
  <2>1. a # 0 BY DEF Divides
  <2> QED BY <2>1
<1>3. PICK e \in I : \A y \in I : e <= y
  <2>1. I \in SUBSET Nat /\ I # {} BY <1>1
  <2> HIDE DEF I
  <2> QED BY <2>1, Least
<1>4. ASSUME NEW x \in I PROVE Divides(e, x)
  <2>0. x \in Nat /\ e \in Nat /\ e > 0 OBVIOUS
  <2>1. PICK q \in Int, r \in 0 .. e - 1 : x = q * e + r
    <3>1. x \div e \in Int /\ x % e \in 0 .. e - 1 /\ x = (x \div e) * e + (x % e)
      BY <2>0, Remainders
    <3> QED BY <3>1
  <2>2. Divides(p, x * b) /\ Divides(p, e * b) OBVIOUS
  <2>3. Divides(p, q * (e * b))
    <3>1. PICK m \in Int : m = e * b BY <2>0
    <3>3. p \in Int /\ Divides(p, m) BY <2>2, <3>1
    <3>2. Divides(p, q * m) BY <3>3, DividesProduct, Zenon
    <3> QED BY <3>1, <3>2
  <2>4. Divides(p, x * b - q * (e * b)) 
    <3>1. x * b \in Int /\ q * (e * b) \in Int OBVIOUS
    <3> QED BY <2>2, <2>3, <3>1, DividesDifference
  <2>5. x * b - q * (e * b) = r * b BY <2>1
  <2>6. r = 0 
    <3>1. SUFFICES ASSUME r > 0 PROVE FALSE OBVIOUS
    <3>2. r \in I BY <2>4, <2>5, <3>1
    <3> QED BY <1>3, <3>2
  <2> QED BY <2>1, <2>6 DEF Divides
<1>5. e \in Nat /\ e > 0 /\ Divides(p, e * b) OBVIOUS
<1>6. Divides(e, p) /\ Divides(e, a) BY <1>1, <1>2, <1>4
<1>7. e # p BY <1>6
<1>8. e = 1 BY <1>5, <1>6, <1>7 DEF Prime
<1> QED BY <1>5, <1>8

(* Quadratic probing does not meet itself in the first half of a table of    *)
(* prime length.                                                             *)
LEMMA ProbesDiffer ==
  ASSUME NEW p \in Nat, Prime(p), NEW h \in Nat, NEW i \in Nat, NEW j \in Nat, i < j, i + j < p
  PROVE  (h + i * i) % p # (h + j * j) % p
<1> SUFFICES ASSUME (h + i * i) % p = (h + j * j) % p PROVE FALSE OBVIOUS
<1>1. p > 1 BY DEF Prime
<1>2. Divides(p, (h + j * j) - (h + i * i))
  <2>1. h + j * j \in Int /\ h + i * i \in Int OBVIOUS
  <2>2. PICK x \in Int, y \in Int : x = h + j * j /\ y = h + i * i BY <2>1
  <2>3. x % p = y % p BY <2>2
  <2>5. p > 0 BY <1>1
  <2>4. Divides(p, x - y) BY <2>5, <2>3, SameRemainder, Zenon
  <2> QED BY <2>2, <2>4
<1>3. (h + j * j) - (h + i * i) = (j - i) * (j + i) OBVIOUS
<1>4. ASSUME NEW x \in Nat, 0 < x, x < p PROVE ~Divides(p, x) BY <1>4, DivisorBound
<1>5. ~Divides(p, j - i) /\ ~Divides(p, j + i) BY <1>4
<1>6. Divides(p, (j - i) * (j + i)) BY <1>2, <1>3
<1> QED BY <1>5, <1>6, Euclid
-----------------------------------------------------------------------------
(* A prime between n and 2n, for every n > 2: Bertrand's postulate. *)
Bertrand == \A n \in Nat : n > 2 => \E m \in n .. 2 * n : m % 2 = 1 /\ Map!IsPrime(m)

HashesFit == HashOf \in [Keys -> Nat] /\ CAPACITY \in Nat

LEMMA NextIsPrime ==
  ASSUME Bertrand, NEW n \in Nat, n > 2
  PROVE  Map!NextPrime(n) \in n .. 2 * n /\ Map!NextPrime(n) % 2 = 1 /\ Prime(Map!NextPrime(n))
<1> DEFINE I == {m \in n .. 2 * n : m % 2 = 1 /\ Map!IsPrime(m)}
<1>1. Map!NextPrime(n) = Map!Min(I) BY DEF Map!NextPrime
<1>2. I \in SUBSET Nat /\ I # {} BY DEF Bertrand
<1>3. Map!Min(I) \in I
  <2> HIDE DEF I
  <2> QED BY <1>2, Least DEF Map!Min
<1>4. PICK p \in I : p = Map!NextPrime(n) BY <1>1, <1>3
<1>5. p \in Nat /\ p > 1 /\ p % 2 = 1 /\ Map!IsPrime(p) BY <1>4
<1>6. Prime(p) BY <1>5, PrimeHasNoDivisors DEF Prime
<1> QED BY <1>4, <1>6

Entries == {Map!Free} \cup [free : {FALSE}, key : Keys, value : Values, isDeleted : BOOLEAN]
Tables(n) == [0 .. n - 1 -> Entries]

LEMMA EntryFacts ==
  /\ \A k \in Keys, x \in Values :
       /\ Map!Entry(k, x) \in Entries /\ Map!Entry(k, x) # Map!Free
       /\ Map!Entry(k, x).key = k /\ Map!Entry(k, x).value = x /\ ~Map!Entry(k, x).isDeleted
  /\ \A e \in Entries : e # Map!Free =>
       /\ e.key \in Keys /\ e.value \in Values /\ e.isDeleted \in BOOLEAN /\ e.free = FALSE
       /\ [e EXCEPT !.isDeleted = TRUE] \in Entries
       /\ [e EXCEPT !.isDeleted = TRUE] # Map!Free
       /\ [e EXCEPT !.isDeleted = TRUE].isDeleted
       /\ [e EXCEPT !.isDeleted = TRUE].key = e.key
BY DEF Entries, Map!Entry, Map!Free

LEMMA MapCardinality == \A S : Map!Cardinality(S) = Cardinality(S)
BY DEF Map!Cardinality, Cardinality

LEMMA IndicesCounted ==
  ASSUME NEW n \in Nat
  PROVE  IsFiniteSet(0 .. n - 1) /\ Cardinality(0 .. n - 1) = n
BY FS_Interval

LEMMA LengthIs ==
  ASSUME NEW n \in Nat, NEW S, NEW t \in [0 .. n - 1 -> S]
  PROVE  Map!Length(t) = n
<1>1. Cardinality(0 .. n - 1) = n BY FS_Interval
<1>2. DOMAIN t = 0 .. n - 1 OBVIOUS
<1>3. Map!Length(t) = Cardinality(0 .. n - 1) BY <1>2, MapCardinality DEF Map!Length
<1> QED BY <1>1, <1>3

LEMMA ProbeIn ==
  ASSUME HashesFit, NEW n \in Nat, n > 0, NEW t \in Tables(n), NEW k \in Keys
  PROVE  /\ \A i \in Nat : Map!Probe(t, k, i) \in 0 .. n - 1
         /\ Map!Probe(t, k, n) = Map!Probe(t, k, 0)
<1>1. Map!Length(t) = n BY LengthIs DEF Tables
<1>2. PICK h \in 0 .. n - 1 : h = HashOf[k] % n BY Remainders DEF HashesFit
<1>3. \A i : Map!Probe(t, k, i) = (h + i * i) % n BY <1>1, <1>2 DEF Map!Probe
<1>4. ASSUME NEW i \in Nat PROVE Map!Probe(t, k, i) \in 0 .. n - 1
  <2>1. h + i * i \in Int OBVIOUS
  <2> QED BY <1>3, <2>1, Remainders
<1>5. (h + n * n) % n = (h + 0 * 0) % n
  <2>1. h + n * n \in Int /\ h + 0 * 0 = h /\ h \in Int OBVIOUS
  <2>2. PICK a \in Int : a = h + n * n BY <2>1
  <2>3. PICK r \in 0 .. n - 1, q \in Int : a = q * n + r /\ a % n = r
    <3>1. a = (a \div n) * n + (a % n) /\ a \div n \in Int /\ a % n \in 0 .. n - 1 BY Remainders
    <3> QED BY <3>1
  <2>4. h - r = (q - n) * n BY <2>2, <2>3
  <2>5. q - n = 0
    <3>1. q - n >= 1 => (q - n) * n >= n OBVIOUS
    <3>2. q - n <= -1 => (q - n) * n <= - n OBVIOUS
    <3> QED BY <2>4, <3>1, <3>2
  <2>6. h = r BY <2>4, <2>5
  <2>7. h % n = h BY Z3
  <2> QED BY <2>1, <2>2, <2>3, <2>6, <2>7
<1> QED BY <1>3, <1>4, <1>5

(* The search for a key ends at its i-th place. *)
Ends(t, k, i) ==
  \/ t[Map!Probe(t, k, i)] = Map!Free
  \/ Map!Holds(t[Map!Probe(t, k, i)], k)
  \/ i > 0 /\ Map!Probe(t, k, i) = Map!Probe(t, k, 0)

LEMMA PlaceIs ==
  ASSUME HashesFit, NEW n \in Nat, n > 0, NEW t \in Tables(n), NEW k \in Keys
  PROVE  \E i \in 0 .. n : /\ Map!Place(t, k) = Map!Probe(t, k, i) /\ Ends(t, k, i)
                           /\ \A j \in 0 .. i - 1 : ~Ends(t, k, j)
<1> DEFINE I == {i \in 0 .. n : Ends(t, k, i)}
<1>1. Map!Length(t) = n BY LengthIs DEF Tables
<1>2. Map!Place(t, k) = Map!Probe(t, k, Map!Min(I)) BY <1>1 DEF Map!Place, Ends
<1>3. I \in SUBSET Nat /\ n \in I BY ProbeIn DEF Ends
<1>4. Map!Min(I) \in I /\ \A y \in I : Map!Min(I) <= y
  <2> HIDE DEF I
  <2> QED BY <1>3, Least DEF Map!Min
<1>5. PICK i \in I : i = Map!Min(I) /\ \A y \in I : i <= y BY <1>4
<1>6. ASSUME NEW j \in 0 .. i - 1 PROVE ~Ends(t, k, j)
  <2>1. j \in 0 .. n /\ j < i OBVIOUS
  <2> QED BY <1>5, <2>1
<1> QED BY <1>2, <1>5, <1>6

LEMMA PlaceAt ==
  ASSUME HashesFit, NEW n \in Nat, n > 0, NEW t \in Tables(n), NEW k \in Keys,
         NEW i \in 0 .. n, Ends(t, k, i), \A j \in 0 .. i - 1 : ~Ends(t, k, j)
  PROVE  Map!Place(t, k) = Map!Probe(t, k, i)
<1>1. PICK j \in 0 .. n : /\ Map!Place(t, k) = Map!Probe(t, k, j) /\ Ends(t, k, j)
                          /\ \A m \in 0 .. j - 1 : ~Ends(t, k, m)
  BY PlaceIs
<1>2. i = j
  <2>1. ~(i < j) BY <1>1
  <2>2. ~(j < i) BY <1>1
  <2> QED BY <2>1, <2>2
<1> QED BY <1>1, <1>2

(* Every entry that was not removed is where the search for its key ends. *)
LiveInPlace(t) == \A i \in Map!Live(t) : Map!Place(t, t[i].key) = i

KeysIn(t) == {t[i].key : i \in Map!Live(t)}

LEMMA LiveFacts ==
  ASSUME NEW n \in Nat, NEW t \in Tables(n)
  PROVE  /\ Map!Live(t) \subseteq 0 .. n - 1 /\ IsFiniteSet(Map!Live(t))
         /\ Cardinality(Map!Live(t)) \in Nat /\ Cardinality(Map!Live(t)) <= n
         /\ \A i \in Map!Live(t) : /\ t[i].key \in Keys /\ t[i].value \in Values
                                   /\ t[i] # Map!Free /\ ~t[i].isDeleted
                                   /\ Map!Holds(t[i], t[i].key)
         /\ \A i \in 0 .. n - 1, k \in Keys :
              Map!Holds(t[i], k) => i \in Map!Live(t) /\ t[i].key = k
<1>1. DOMAIN t = 0 .. n - 1 BY DEF Tables
<1>2. Map!Live(t) \subseteq 0 .. n - 1 BY <1>1 DEF Map!Live
<1>3. IsFiniteSet(0 .. n - 1) /\ Cardinality(0 .. n - 1) = n BY FS_Interval
<1>4. /\ IsFiniteSet(Map!Live(t))
      /\ Cardinality(Map!Live(t)) \in Nat /\ Cardinality(Map!Live(t)) <= n
  BY <1>2, <1>3, FS_Subset, FS_CardinalityType
<1>5. ASSUME NEW i \in Map!Live(t)
      PROVE  /\ t[i].key \in Keys /\ t[i].value \in Values
             /\ t[i] # Map!Free /\ ~t[i].isDeleted
             /\ Map!Holds(t[i], t[i].key)
  <2>1. t[i] \in Entries BY <1>2 DEF Tables
  <2>2. t[i] # Map!Free /\ ~t[i].isDeleted BY DEF Map!Live
  <2> QED BY <2>1, <2>2, EntryFacts DEF Map!Holds
<1>6. ASSUME NEW i \in 0 .. n - 1, NEW k \in Keys, Map!Holds(t[i], k)
      PROVE i \in Map!Live(t) /\ t[i].key = k
  BY <1>1, <1>6 DEF Map!Holds, Map!Live
<1> QED BY <1>2, <1>4, <1>5, <1>6

LEMMA FoundIs ==
  ASSUME HashesFit, NEW n \in Nat, n > 0, NEW t \in Tables(n), LiveInPlace(t), NEW k \in Keys
  PROVE  /\ Map!Place(t, k) \in 0 .. n - 1
         /\ Map!Found(t, k) <=> Map!Place(t, k) \in Map!Live(t) /\ t[Map!Place(t, k)].key = k
         /\ Map!Found(t, k) <=> k \in KeysIn(t)
<1>1. Map!Place(t, k) \in 0 .. n - 1
  <2>1. PICK i \in 0 .. n : Map!Place(t, k) = Map!Probe(t, k, i) BY PlaceIs
  <2> QED BY <2>1, ProbeIn
<1>2. Map!Found(t, k) <=> Map!Place(t, k) \in Map!Live(t) /\ t[Map!Place(t, k)].key = k
  BY <1>1, LiveFacts DEF Map!Found
<1>3. k \in KeysIn(t) => Map!Found(t, k)
  <2> SUFFICES ASSUME NEW i \in Map!Live(t), k = t[i].key PROVE Map!Found(t, k)
    BY DEF KeysIn
  <2>1. Map!Place(t, k) = i BY DEF LiveInPlace
  <2> QED BY <1>2, <2>1
<1>4. Map!Found(t, k) => k \in KeysIn(t) BY <1>2 DEF KeysIn
<1> QED BY <1>1, <1>2, <1>3, <1>4

(* An entry more, or a mark on one, leaves the search for another key alone. *)
LEMMA OtherPlaces ==
  ASSUME HashesFit, NEW n \in Nat, n > 0, NEW t \in Tables(n), NEW u \in Tables(n),
         NEW q \in 0 .. n - 1, \A i \in 0 .. n - 1 : i # q => u[i] = t[i],
         NEW k \in Keys, u[q] # Map!Free, ~Map!Holds(u[q], k),
         Map!Place(t, k) # q, Map!Holds(t[Map!Place(t, k)], k)
  PROVE  Map!Place(u, k) = Map!Place(t, k)
<1>1. PICK i \in 0 .. n : /\ Map!Place(t, k) = Map!Probe(t, k, i) /\ Ends(t, k, i)
                          /\ \A j \in 0 .. i - 1 : ~Ends(t, k, j)
  BY PlaceIs
<1>2. Map!Length(t) = n /\ Map!Length(u) = n BY LengthIs DEF Tables
<1>3. \A j \in Nat : Map!Probe(u, k, j) = Map!Probe(t, k, j) /\ Map!Probe(t, k, j) \in 0 .. n - 1
  BY <1>2, ProbeIn DEF Map!Probe
<1>4. Ends(u, k, i)
  BY <1>1, <1>3 DEF Ends
<1>5. ASSUME NEW j \in 0 .. i - 1 PROVE ~Ends(u, k, j)
  <2>1. j \in Nat /\ ~Ends(t, k, j) /\ 0 \in Nat BY <1>1
  <2>2. Map!Probe(u, k, j) = Map!Probe(t, k, j) /\ Map!Probe(t, k, j) \in 0 .. n - 1
        /\ Map!Probe(u, k, 0) = Map!Probe(t, k, 0)
    BY <1>3, <2>1
  <2>3. CASE Map!Probe(t, k, j) = q BY <2>1, <2>2, <2>3 DEF Ends
  <2>4. CASE Map!Probe(t, k, j) # q BY <2>1, <2>2, <2>4 DEF Ends
  <2> QED BY <2>3, <2>4
<1>6. Map!Place(u, k) = Map!Probe(u, k, i) BY <1>4, <1>5, PlaceAt
<1> QED BY <1>1, <1>3, <1>6

(* An entry is found where it has been inserted. *)
LEMMA InsertedPlace ==
  ASSUME HashesFit, NEW n \in Nat, n > 0, NEW t \in Tables(n), NEW k \in Keys, NEW x \in Values
  PROVE  LET u == Map!Insert(t, k, x)
             q == Map!Place(t, k)
         IN  /\ u \in Tables(n) /\ q \in 0 .. n - 1 /\ u[q] = Map!Entry(k, x)
             /\ \A i \in 0 .. n - 1 : i # q => u[i] = t[i]
             /\ Map!Place(u, k) = q
<1> DEFINE u == Map!Insert(t, k, x)
           q == Map!Place(t, k)
<1>1. PICK i \in 0 .. n : /\ q = Map!Probe(t, k, i) /\ Ends(t, k, i)
                          /\ \A j \in 0 .. i - 1 : ~Ends(t, k, j)
  BY PlaceIs
<1>2. q \in 0 .. n - 1 BY <1>1, ProbeIn
<1>3. u \in Tables(n) /\ u[q] = Map!Entry(k, x) /\ \A j \in 0 .. n - 1 : j # q => u[j] = t[j]
  BY <1>2, EntryFacts DEF Map!Insert, Tables
<1>4. Map!Length(t) = n /\ Map!Length(u) = n BY <1>3, LengthIs DEF Tables
<1>5. \A j \in Nat : Map!Probe(u, k, j) = Map!Probe(t, k, j) /\ Map!Probe(t, k, j) \in 0 .. n - 1
  BY <1>4, ProbeIn DEF Map!Probe
<1>6. Map!Holds(u[q], k) BY <1>3, EntryFacts DEF Map!Holds
<1> HIDE DEF u, q
<1>7. CASE i > 0 /\ q = Map!Probe(t, k, 0)
  <2>1. Ends(u, k, 0) BY <1>5, <1>6, <1>7 DEF Ends
  <2>2. Map!Place(u, k) = Map!Probe(u, k, 0)
    <3>1. 0 \in 0 .. n /\ \A j \in 0 .. 0 - 1 : ~Ends(u, k, j) OBVIOUS
    <3> QED BY <1>3, <2>1, <3>1, PlaceAt
  <2> QED BY <1>2, <1>3, <1>5, <1>7, <2>2 DEF u, q
<1>8. CASE ~(i > 0 /\ q = Map!Probe(t, k, 0))
  <2>1. Ends(u, k, i) BY <1>1, <1>5, <1>6 DEF Ends
  <2>2. t[q] = Map!Free \/ Map!Holds(t[q], k) BY <1>1, <1>8 DEF Ends
  <2>3. ASSUME NEW j \in 0 .. i - 1 PROVE ~Ends(u, k, j)
    <3>1. j \in Nat /\ ~Ends(t, k, j) /\ 0 \in Nat BY <1>1
    <3>2. Map!Probe(t, k, j) # q BY <2>2, <3>1 DEF Ends
    <3>3. Map!Probe(u, k, j) = Map!Probe(t, k, j) /\ Map!Probe(t, k, j) \in 0 .. n - 1
          /\ Map!Probe(u, k, 0) = Map!Probe(t, k, 0)
      BY <1>5, <3>1
    <3>4. u[Map!Probe(u, k, j)] = t[Map!Probe(t, k, j)] BY <1>3, <3>2, <3>3
    <3> QED BY <3>1, <3>3, <3>4 DEF Ends
  <2>4. Map!Place(u, k) = Map!Probe(u, k, i) BY <1>3, <2>1, <2>3, PlaceAt
  <2> QED BY <1>1, <1>2, <1>3, <1>5, <2>4 DEF u, q
<1> QED BY <1>7, <1>8

(* What put does to a table, when it replaces nothing or the same key. *)
LEMMA Inserted ==
  ASSUME HashesFit, NEW n \in Nat, n > 0, NEW t \in Tables(n), LiveInPlace(t),
         NEW k \in Keys, NEW x \in Values
  PROVE  LET u == Map!Insert(t, k, x)
             q == Map!Place(t, k)
         IN  /\ u \in Tables(n) /\ LiveInPlace(u)
             /\ Map!Live(u) = Map!Live(t) \cup {q} /\ u[q] = Map!Entry(k, x)
             /\ \A i \in Map!Live(t) : i # q => u[i] = t[i]
             /\ \A i \in 0 .. n - 1 : i # q => u[i] = t[i]
             /\ q \in 0 .. n - 1
<1> DEFINE u == Map!Insert(t, k, x)
           q == Map!Place(t, k)
<1>1. /\ u \in Tables(n) /\ q \in 0 .. n - 1 /\ u[q] = Map!Entry(k, x)
      /\ \A i \in 0 .. n - 1 : i # q => u[i] = t[i]
      /\ Map!Place(u, k) = q
  BY InsertedPlace
<1> HIDE DEF u
<1>2. DOMAIN t = 0 .. n - 1 /\ DOMAIN u = 0 .. n - 1 BY <1>1 DEF Tables
<1>3. Map!Live(u) = Map!Live(t) \cup {q}
  BY <1>1, <1>2, EntryFacts DEF Map!Live
<1>4. ASSUME NEW i \in Map!Live(u) PROVE Map!Place(u, u[i].key) = i
  <2>1. CASE i = q BY <1>1, <2>1, EntryFacts
  <2>2. CASE i # q
    <3>1. i \in Map!Live(t) /\ u[i] = t[i] BY <1>1, <1>2, <1>3, <2>2 DEF Map!Live
    <3>2. PICK y \in Keys : y = t[i].key BY <3>1, LiveFacts
    <3>3. Map!Place(t, y) = i /\ Map!Holds(t[i], y) BY <3>1, <3>2, LiveFacts DEF LiveInPlace
    <3>4. y # k BY <2>2, <3>3
    <3>5. u[q] # Map!Free /\ ~Map!Holds(u[q], y) BY <1>1, <3>4, EntryFacts DEF Map!Holds
    <3>6. Map!Place(u, y) = Map!Place(t, y) BY <1>1, <2>2, <3>3, <3>5, OtherPlaces
    <3> QED BY <3>1, <3>2, <3>3, <3>6
  <2> QED BY <2>1, <2>2
<1>5. \A i \in Map!Live(t) : i # q => u[i] = t[i] BY <1>1, <1>2 DEF Map!Live
<1> QED BY <1>1, <1>3, <1>4, <1>5 DEF LiveInPlace, u

(* The table and the calls so far agree. *)
Agrees(t, c) ==
  /\ DOMAIN c = KeysIn(t)
  /\ \A i \in Map!Live(t) : c[t[i].key] = t[i].value

LEMMA KeysOnce ==
  ASSUME NEW n \in Nat, NEW t \in Tables(n), LiveInPlace(t)
  PROVE  /\ \A i, j \in Map!Live(t) : t[i].key = t[j].key => i = j
         /\ Cardinality(KeysIn(t)) = Cardinality(Map!Live(t))
<1>1. \A i, j \in Map!Live(t) : t[i].key = t[j].key => i = j BY DEF LiveInPlace
<1> DEFINE g == [i \in Map!Live(t) |-> t[i].key]
<1>2. g \in Bijection(Map!Live(t), KeysIn(t))
  BY <1>1 DEF Bijection, Injection, Surjection, IsInjective, KeysIn
<1>3. ExistsBijection(Map!Live(t), KeysIn(t)) BY <1>2 DEF ExistsBijection
<1>4. IsFiniteSet(Map!Live(t)) BY LiveFacts
<1>5. Cardinality(KeysIn(t)) = Cardinality(Map!Live(t)) BY <1>3, <1>4, FS_Bijection
<1> QED BY <1>1, <1>5

LEMMA PutAgrees ==
  ASSUME HashesFit, NEW n \in Nat, n > 0, NEW t \in Tables(n), LiveInPlace(t),
         NEW k \in Keys, NEW x \in Values, NEW c, Agrees(t, c),
         Map!Place(t, k) \in Map!Live(t) => t[Map!Place(t, k)].key = k
  PROVE  LET u == Map!Insert(t, k, x)
         IN  /\ Agrees(u, [y \in DOMAIN c \cup {k} |-> IF y = k THEN x ELSE c[y]])
             /\ Cardinality(Map!Live(u)) =
                  Cardinality(Map!Live(t)) + (IF Map!Found(t, k) THEN 0 ELSE 1)
<1> DEFINE u == Map!Insert(t, k, x)
           q == Map!Place(t, k)
           d == [y \in DOMAIN c \cup {k} |-> IF y = k THEN x ELSE c[y]]
<1>1. /\ u \in Tables(n) /\ LiveInPlace(u)
      /\ Map!Live(u) = Map!Live(t) \cup {q} /\ u[q] = Map!Entry(k, x)
      /\ \A i \in Map!Live(t) : i # q => u[i] = t[i]
      /\ q \in 0 .. n - 1
  BY Inserted
<1>2. u[q].key = k /\ u[q].value = x BY <1>1, EntryFacts
<1> HIDE DEF u
<1>3. q \in Map!Live(t) => t[q].key = k OBVIOUS
<1> HIDE DEF q
<1>4. KeysIn(u) = KeysIn(t) \cup {k}
  <2>1. ASSUME NEW i \in Map!Live(u) PROVE u[i].key \in KeysIn(t) \cup {k}
    BY <1>1, <1>2 DEF KeysIn
  <2>2. ASSUME NEW i \in Map!Live(t) PROVE t[i].key \in KeysIn(u)
    BY <1>1, <1>2, <1>3 DEF KeysIn
  <2>3. k \in KeysIn(u) BY <1>1, <1>2 DEF KeysIn
  <2> QED BY <2>1, <2>2, <2>3 DEF KeysIn
<1>5. DOMAIN d = KeysIn(u) BY <1>4 DEF Agrees
<1>6. ASSUME NEW i \in Map!Live(u) PROVE d[u[i].key] = u[i].value
  <2>1. CASE i = q BY <1>2, <2>1
  <2>2. CASE i # q
    <3>1. i \in Map!Live(t) /\ u[i] = t[i] BY <1>1, <2>2
    <3>2. t[i].key # k BY <3>1, <2>2 DEF LiveInPlace, q
    <3>3. t[i].key \in DOMAIN c /\ c[t[i].key] = t[i].value BY <3>1 DEF Agrees, KeysIn
    <3> QED BY <3>1, <3>2, <3>3
  <2> QED BY <2>1, <2>2
<1>7. Cardinality(Map!Live(u)) = Cardinality(Map!Live(t)) + (IF Map!Found(t, k) THEN 0 ELSE 1)
  <2>1. Map!Found(t, k) <=> q \in Map!Live(t) BY <1>3, FoundIs DEF q
  <2>2. IsFiniteSet(Map!Live(t)) /\ Cardinality(Map!Live(t)) \in Nat BY LiveFacts
  <2>3. CASE q \in Map!Live(t)
    <3>1. Map!Live(u) = Map!Live(t) BY <1>1, <2>3
    <3> QED BY <2>1, <2>2, <2>3, <3>1
  <2>4. CASE q \notin Map!Live(t)
    <3>1. Cardinality(Map!Live(t) \cup {q}) = Cardinality(Map!Live(t)) + 1
      BY <2>2, <2>4, FS_AddElement
    <3> QED BY <1>1, <2>1, <2>4, <3>1
  <2> QED BY <2>3, <2>4
<1> QED BY <1>5, <1>6, <1>7 DEF Agrees, u

(* What remove does. *)
LEMMA RemoveAgrees ==
  ASSUME HashesFit, NEW n \in Nat, n > 0, NEW t \in Tables(n), LiveInPlace(t),
         NEW k \in Keys, Map!Found(t, k)
  PROVE  LET q == Map!Place(t, k)
             u == [t EXCEPT ![q].isDeleted = TRUE]
         IN  /\ u \in Tables(n) /\ LiveInPlace(u)
             /\ Cardinality(Map!Live(u)) = Cardinality(Map!Live(t)) - 1
             /\ Cardinality(Map!Live(t)) > 0
             /\ \A c : Agrees(t, c) => Agrees(u, [y \in DOMAIN c \ {k} |-> c[y]])
<1> DEFINE q == Map!Place(t, k)
           u == [t EXCEPT ![q].isDeleted = TRUE]
<1>1. q \in 0 .. n - 1 /\ q \in Map!Live(t) /\ t[q].key = k /\ t[q] # Map!Free BY FoundIs, LiveFacts
<1> HIDE DEF q
<1>2. /\ u \in Tables(n) /\ u[q] # Map!Free /\ u[q].isDeleted
      /\ \A i \in 0 .. n - 1 : i # q => u[i] = t[i]
  <2>1. t[q] \in Entries BY <1>1 DEF Tables
  <2>2. u = [t EXCEPT ![q] = [t[q] EXCEPT !.isDeleted = TRUE]] OBVIOUS
  <2> HIDE DEF u
  <2> QED BY <1>1, <2>1, <2>2, EntryFacts DEF Tables
<1> HIDE DEF u
<1>3. DOMAIN t = 0 .. n - 1 /\ DOMAIN u = 0 .. n - 1 BY <1>2 DEF Tables
<1>4. Map!Live(u) = Map!Live(t) \ {q} BY <1>1, <1>2, <1>3 DEF Map!Live
<1>5. ASSUME NEW i \in Map!Live(u)
      PROVE  i \in Map!Live(t) /\ i # q /\ u[i] = t[i] /\ t[i].key # k
  <2>1. i \in Map!Live(t) /\ i # q /\ i \in 0 .. n - 1 BY <1>3, <1>4 DEF Map!Live
  <2> QED BY <1>1, <1>2, <2>1 DEF LiveInPlace
<1>6. ASSUME NEW i \in Map!Live(u) PROVE Map!Place(u, u[i].key) = i
  <2>1. i \in Map!Live(t) /\ i # q /\ u[i] = t[i] /\ t[i].key # k BY <1>5
  <2>2. PICK y \in Keys : y = t[i].key BY <2>1, LiveFacts
  <2>3. Map!Place(t, y) = i /\ Map!Holds(t[i], y) BY <2>1, <2>2, LiveFacts DEF LiveInPlace
  <2>4. ~Map!Holds(u[q], y) BY <1>2 DEF Map!Holds
  <2>5. Map!Place(u, y) = Map!Place(t, y) BY <1>1, <1>2, <2>1, <2>3, <2>4, OtherPlaces
  <2> QED BY <2>1, <2>2, <2>3, <2>5
<1>7. Cardinality(Map!Live(u)) = Cardinality(Map!Live(t)) - 1 /\ Cardinality(Map!Live(t)) > 0
  <2>1. IsFiniteSet(Map!Live(t)) /\ Cardinality(Map!Live(t)) \in Nat BY LiveFacts
  <2>2. Cardinality(Map!Live(t) \ {q}) = Cardinality(Map!Live(t)) - 1 BY <1>1, <2>1, FS_RemoveElement
  <2>3. Cardinality(Map!Live(t)) # 0 BY <1>1, <2>1, FS_EmptySet
  <2> QED BY <1>4, <2>1, <2>2, <2>3
<1>8. ASSUME NEW c, Agrees(t, c) PROVE Agrees(u, [y \in DOMAIN c \ {k} |-> c[y]])
  <2>1. KeysIn(u) = KeysIn(t) \ {k}
    <3>1. ASSUME NEW i \in Map!Live(u) PROVE u[i].key \in KeysIn(t) \ {k}
      BY <1>5 DEF KeysIn
    <3>2. ASSUME NEW i \in Map!Live(t), t[i].key # k PROVE t[i].key \in KeysIn(u)
      <4>1. i # q BY <1>1, <3>2
      <4>2. i \in Map!Live(u) BY <1>4, <4>1
      <4> QED BY <1>5, <4>2 DEF KeysIn
    <3> QED BY <3>1, <3>2 DEF KeysIn
  <2>2. ASSUME NEW i \in Map!Live(u) PROVE u[i].key \in DOMAIN c \ {k} /\ c[u[i].key] = u[i].value
    BY <1>5, <1>8 DEF Agrees, KeysIn
  <2> QED BY <1>8, <2>1, <2>2 DEF Agrees
<1> QED BY <1>2, <1>6, <1>7, <1>8 DEF LiveInPlace, u, q

(* A table of prime length that is less than half full has a free place for  *)
(* a key that it does not hold. *)
LEMMA FreePlace ==
  ASSUME HashesFit, NEW p \in Nat, Prime(p), p % 2 = 1, NEW t \in Tables(p), LiveInPlace(t),
         \A i \in 0 .. p - 1 : t[i] = Map!Free \/ i \in Map!Live(t),
         2 * Cardinality(Map!Live(t)) < p, NEW k \in Keys, k \notin KeysIn(t)
  PROVE  t[Map!Place(t, k)] = Map!Free
<1> SUFFICES ASSUME t[Map!Place(t, k)] # Map!Free PROVE FALSE OBVIOUS
<1>1. p > 1 BY DEF Prime
<1>2. PICK i \in 0 .. p : /\ Map!Place(t, k) = Map!Probe(t, k, i) /\ Ends(t, k, i)
                          /\ \A j \in 0 .. i - 1 : ~Ends(t, k, j)
  BY <1>1, PlaceIs
<1>3. \A j \in Nat : Map!Probe(t, k, j) \in 0 .. p - 1 BY <1>1, ProbeIn
<1>4. PICK h \in Nat : \A j : Map!Probe(t, k, j) = (h + j * j) % p
  <2>1. Map!Length(t) = p BY LengthIs DEF Tables
  <2>2. HashOf[k] % p \in Nat BY <1>1, Remainders DEF HashesFit
  <2> QED BY <2>1, <2>2 DEF Map!Probe
<1>5. i > 0 /\ Map!Probe(t, k, i) = Map!Probe(t, k, 0)
  <2>1. ~Map!Found(t, k) BY <1>1, FoundIs
  <2>2. ~Map!Holds(t[Map!Probe(t, k, i)], k) BY <1>2, <2>1 DEF Map!Found
  <2> QED BY <1>2, <2>2 DEF Ends
<1>6. i = p
  <2>1. SUFFICES ASSUME i < p PROVE FALSE OBVIOUS
  <2>2. i \in Nat /\ 0 \in Nat /\ 0 < i /\ 0 + i < p BY <1>5, <2>1
  <2>3. (h + 0 * 0) % p # (h + i * i) % p BY <2>2, ProbesDiffer
  <2> QED BY <1>4, <1>5, <2>3
<1>7. \A j \in 0 .. p - 1 : Map!Probe(t, k, j) \in Map!Live(t)
  <2> SUFFICES ASSUME NEW j \in 0 .. p - 1 PROVE Map!Probe(t, k, j) \in Map!Live(t) OBVIOUS
  <2>1. ~Ends(t, k, j) BY <1>2, <1>6
  <2>2. Map!Probe(t, k, j) \in 0 .. p - 1 BY <1>3
  <2> QED BY <2>1, <2>2 DEF Ends
<1>8. PICK m \in Nat : p = 2 * m + 1
  <2>1. p \div 2 \in Int /\ p = (p \div 2) * 2 + (p % 2) OBVIOUS
  <2> QED BY <2>1
<1> DEFINE g == [j \in 0 .. m |-> Map!Probe(t, k, j)]
<1>9. \A j \in 0 .. m : g[j] \in Map!Live(t)
  BY <1>1, <1>7, <1>8
<1>10. ASSUME NEW a \in 0 .. m, NEW b \in 0 .. m, a < b PROVE g[a] # g[b]
  <2>1. a + b < p /\ a \in Nat /\ b \in Nat BY <1>8, <1>10
  <2>2. (h + a * a) % p # (h + b * b) % p BY <1>10, <2>1, ProbesDiffer
  <2> QED BY <1>4, <2>2
<1>11. \A a, b \in 0 .. m : g[a] = g[b] => a = b
  <2> HIDE DEF g
  <2> SUFFICES ASSUME NEW a \in 0 .. m, NEW b \in 0 .. m, g[a] = g[b], a # b PROVE FALSE OBVIOUS
  <2>1. a < b \/ b < a OBVIOUS
  <2> QED BY <1>10, <2>1
<1>12. g \in Injection(0 .. m, Map!Live(t))
  <2>1. g \in [0 .. m -> Map!Live(t)] BY <1>9
  <2> HIDE DEF g
  <2> QED BY <1>11, <2>1 DEF Injection, IsInjective
<1>13. IsFiniteSet(Map!Live(t)) /\ Cardinality(Map!Live(t)) \in Nat BY LiveFacts
<1>14. Cardinality(0 .. m) = m + 1 BY FS_Interval
<1>15. Cardinality(0 .. m) <= Cardinality(Map!Live(t))
  <2> HIDE DEF g
  <2> QED BY <1>12, <1>13, FS_Injection
<1> QED BY <1>8, <1>13, <1>14, <1>15

(* The entries of t that come before n, moved into a table u. *)
Before(t, n) == {i \in Map!Live(t) : i < n}

Moved(t, u, n) ==
  /\ LiveInPlace(u)
  /\ \A i \in DOMAIN u : u[i] = Map!Free \/ i \in Map!Live(u)
  /\ Cardinality(Map!Live(u)) = Cardinality(Before(t, n))
  /\ KeysIn(u) = {t[i].key : i \in Before(t, n)}
  /\ \A i \in Map!Live(u) : \E j \in Before(t, n) : t[j].key = u[i].key /\ t[j].value = u[i].value

MoveOne(t, u, i) == IF i \in Map!Live(t) THEN Map!Insert(u, t[i].key, t[i].value) ELSE u

LEMMA MovesOne ==
  ASSUME HashesFit, NEW n \in Nat, NEW t \in Tables(n), LiveInPlace(t),
         NEW p \in Nat, Prime(p), p % 2 = 1, 2 * n <= p, NEW u \in Tables(p),
         NEW i \in 0 .. n - 1, Moved(t, u, i)
  PROVE  MoveOne(t, u, i) \in Tables(p) /\ Moved(t, MoveOne(t, u, i), i + 1)
<1>1. IsFiniteSet(Before(t, i)) /\ Cardinality(Before(t, i)) \in Nat
  <2>1. IsFiniteSet(Map!Live(t)) BY LiveFacts
  <2> QED BY <2>1, FS_Subset, FS_CardinalityType DEF Before
<1>2. Map!Live(t) \subseteq 0 .. n - 1 BY LiveFacts
<1>3. CASE i \notin Map!Live(t)
  <2>1. Before(t, i + 1) = Before(t, i) BY <1>2, <1>3 DEF Before
  <2> QED BY <1>3, <2>1 DEF Moved, MoveOne
<1>4. CASE i \in Map!Live(t)
  <2>1. PICK k \in Keys, x \in Values : k = t[i].key /\ x = t[i].value BY <1>4, LiveFacts
  <2> DEFINE v == Map!Insert(u, k, x)
             q == Map!Place(u, k)
  <2>2. MoveOne(t, u, i) = v BY <1>4, <2>1 DEF MoveOne
  <2>3. Before(t, i + 1) = Before(t, i) \cup {i} /\ i \notin Before(t, i)
    BY <1>2, <1>4 DEF Before
  <2>4. p > 1 BY DEF Prime
  <2>5. /\ v \in Tables(p) /\ LiveInPlace(v)
        /\ Map!Live(v) = Map!Live(u) \cup {q} /\ v[q] = Map!Entry(k, x)
        /\ \A j \in Map!Live(u) : j # q => v[j] = u[j]
        /\ \A j \in 0 .. p - 1 : j # q => v[j] = u[j]
        /\ q \in 0 .. p - 1
    BY <2>4, Inserted DEF Moved
  <2>6. k \notin KeysIn(u)
    <3>1. SUFFICES ASSUME k \in KeysIn(u) PROVE FALSE OBVIOUS
    <3>2. PICK j \in Before(t, i) : k = t[j].key BY <3>1 DEF Moved
    <3>3. i = j BY <1>4, <2>1, <3>2, KeysOnce DEF Before
    <3> QED BY <2>3, <3>2, <3>3
  <2>7. 2 * Cardinality(Map!Live(u)) < p
    <3>1. Before(t, i) \subseteq 0 .. i - 1 BY <1>2 DEF Before
    <3>2. IsFiniteSet(0 .. i - 1) /\ Cardinality(0 .. i - 1) = i
      <4>1. i \in Nat OBVIOUS
      <4> QED BY <4>1, IndicesCounted
    <3>3. Cardinality(Before(t, i)) <= i BY <3>1, <3>2, FS_Subset
    <3> QED BY <1>1, <3>3 DEF Moved
  <2>8. u[q] = Map!Free
    <3>1. \A j \in 0 .. p - 1 : u[j] = Map!Free \/ j \in Map!Live(u) BY DEF Moved, Tables
    <3> QED BY <2>6, <2>7, <3>1, FreePlace DEF Moved
  <2>9. q \notin Map!Live(u) BY <2>8 DEF Map!Live
  <2>10. v[q].key = k /\ v[q].value = x BY <2>5, EntryFacts
  <2> HIDE DEF v, q
  <2>11. Cardinality(Map!Live(v)) = Cardinality(Before(t, i + 1))
    <3>1. IsFiniteSet(Map!Live(u)) /\ Cardinality(Map!Live(u)) \in Nat BY LiveFacts
    <3>2. Cardinality(Map!Live(v)) = Cardinality(Map!Live(u)) + 1 BY <2>5, <2>9, <3>1, FS_AddElement
    <3>3. Cardinality(Before(t, i + 1)) = Cardinality(Before(t, i)) + 1 BY <1>1, <2>3, FS_AddElement
    <3> QED BY <3>2, <3>3 DEF Moved
  <2>12. \A j \in DOMAIN v : v[j] = Map!Free \/ j \in Map!Live(v)
    <3>1. DOMAIN v = 0 .. p - 1 /\ DOMAIN u = 0 .. p - 1 BY <2>5 DEF Tables
    <3> QED BY <2>5, <3>1 DEF Moved
  <2>13. \A j \in Map!Live(v) : \E l \in Before(t, i + 1) :
           t[l].key = v[j].key /\ t[l].value = v[j].value
    <3> SUFFICES ASSUME NEW j \in Map!Live(v)
                 PROVE  \E l \in Before(t, i + 1) : t[l].key = v[j].key /\ t[l].value = v[j].value
      OBVIOUS
    <3>1. CASE j = q BY <2>1, <2>3, <2>10, <3>1
    <3>2. CASE j # q BY <2>3, <2>5, <3>2 DEF Moved
    <3> QED BY <3>1, <3>2
  <2>14. KeysIn(v) = {t[j].key : j \in Before(t, i + 1)}
    <3>1. KeysIn(v) = KeysIn(u) \cup {k}
      <4>1. ASSUME NEW j \in Map!Live(v) PROVE v[j].key \in KeysIn(u) \cup {k}
        BY <2>5, <2>10 DEF KeysIn
      <4>2. ASSUME NEW j \in Map!Live(u) PROVE u[j].key \in KeysIn(v)
        BY <2>5, <2>9 DEF KeysIn
      <4>3. k \in KeysIn(v) BY <2>5, <2>10 DEF KeysIn
      <4> QED BY <4>1, <4>2, <4>3 DEF KeysIn
    <3> QED BY <2>1, <2>3, <3>1 DEF Moved
  <2> QED BY <2>2, <2>5, <2>11, <2>12, <2>13, <2>14 DEF Moved
<1> QED BY <1>3, <1>4

(* The moves of Resize, one after the other; there are such moves. *)
IsMoving(f, t, n) ==
  f = [i \in 0 .. n |-> IF i = 0 THEN Map!EmptyTable(Map!NextPrime(2 * Map!Length(t)))
                        ELSE MoveOne(t, f[i - 1], i - 1)]

LEMMA MovingExists ==
  ASSUME NEW t, NEW n \in Nat
  PROVE  \E f : IsMoving(f, t, n)
<1> DEFINE Fails == {i \in Nat : ~\E f : IsMoving(f, t, i)}
<1>1. SUFFICES ASSUME Fails # {} PROVE FALSE OBVIOUS
<1>2. PICK i \in Fails : \A j \in Fails : i <= j
  <2>1. Fails \in SUBSET Nat OBVIOUS
  <2> HIDE DEF Fails
  <2> QED BY <1>1, <2>1, Least
<1>3. i \in Nat /\ ~\E f : IsMoving(f, t, i) OBVIOUS
<1>4. CASE i = 0
  <2> DEFINE f == [j \in 0 .. 0 |-> Map!EmptyTable(Map!NextPrime(2 * Map!Length(t)))]
  <2>1. IsMoving(f, t, 0) BY DEF IsMoving
  <2> QED BY <1>3, <1>4, <2>1
<1>5. CASE i # 0
  <2>1. i - 1 \in Nat /\ i - 1 < i BY <1>3, <1>5
  <2>2. i - 1 \notin Fails
    <3> HIDE DEF Fails
    <3> QED BY <1>2, <1>3, <2>1
  <2>3. PICK f : IsMoving(f, t, i - 1) BY <2>1, <2>2
  <2> DEFINE g == [j \in 0 .. i |-> IF j = i THEN MoveOne(t, f[i - 1], i - 1) ELSE f[j]]
  <2>4. ASSUME NEW j \in 0 .. i
        PROVE  g[j] = IF j = 0 THEN Map!EmptyTable(Map!NextPrime(2 * Map!Length(t)))
                      ELSE MoveOne(t, g[j - 1], j - 1)
    <3>1. CASE j = i
      <4>1. g[j] = MoveOne(t, f[i - 1], i - 1) BY <3>1
      <4>2. g[j - 1] = f[i - 1] BY <1>3, <1>5, <2>1, <3>1
      <4> QED BY <1>5, <3>1, <4>1, <4>2
    <3>2. CASE j # i
      <4>1. j \in 0 .. i - 1 BY <1>3, <3>2
      <4>2. g[j] = f[j] /\ (j # 0 => g[j - 1] = f[j - 1]) BY <1>3, <3>2, <4>1
      <4>3. f[j] = IF j = 0 THEN Map!EmptyTable(Map!NextPrime(2 * Map!Length(t)))
                   ELSE MoveOne(t, f[j - 1], j - 1)
        BY <2>3, <4>1, Zenon DEF IsMoving
      <4> HIDE DEF g
      <4> QED BY <4>2, <4>3
    <3> QED BY <3>1, <3>2
  <2>5. g = [j \in 0 .. i |-> g[j]] OBVIOUS
  <2>6. IsMoving(g, t, i)
    <3> HIDE DEF g
    <3> QED BY <2>4, <2>5, Zenon DEF IsMoving
  <2> QED BY <1>3, <2>6
<1> QED BY <1>4, <1>5

(* Resize keeps every entry that was not removed, and no other, in a table   *)
(* where each is found. *)
LEMMA Resized ==
  ASSUME HashesFit, Bertrand, NEW n \in Nat, n > 1, NEW t \in Tables(n), LiveInPlace(t)
  PROVE  LET u == Map!Resize(t)
         IN  /\ \E p \in Nat : p > 1 /\ u \in Tables(p)
             /\ LiveInPlace(u)
             /\ Cardinality(Map!Live(u)) = Cardinality(Map!Live(t))
             /\ \A c : Agrees(t, c) => Agrees(u, c)
<1> DEFINE p == Map!NextPrime(2 * n)
           f == CHOOSE f : IsMoving(f, t, n)
<1>1. Map!Length(t) = n /\ DOMAIN t = 0 .. n - 1 BY LengthIs DEF Tables
<1>2. p \in Nat /\ 2 * n <= p /\ p % 2 = 1 /\ Prime(p)
  <2>1. PICK m \in Nat : m = 2 * n /\ m > 2 OBVIOUS
  <2>2. Map!NextPrime(m) \in m .. 2 * m /\ Map!NextPrime(m) % 2 = 1 /\ Prime(Map!NextPrime(m))
    BY <2>1, NextIsPrime
  <2> QED BY <2>1, <2>2
<1> HIDE DEF p
<1>3. IsMoving(f, t, n) BY MovingExists
<1>4. Map!Resize(t) = f[n] BY <1>1 DEF Map!Resize, IsMoving, MoveOne
<1> HIDE DEF f
<1> DEFINE Wrong == {i \in 0 .. n : ~(f[i] \in Tables(p) /\ Moved(t, f[i], i))}
<1>5. Wrong = {}
  <2>1. SUFFICES ASSUME Wrong # {} PROVE FALSE OBVIOUS
  <2>2. PICK i \in Wrong : \A j \in Wrong : i <= j
    <3>1. Wrong \in SUBSET Nat OBVIOUS
    <3> HIDE DEF Wrong
    <3> QED BY <2>1, <3>1, Least
  <2>3. i \in 0 .. n /\ ~(f[i] \in Tables(p) /\ Moved(t, f[i], i)) OBVIOUS
  <2>4. CASE i = 0
    <3>1. f[0] = Map!EmptyTable(p)
      <4>1. 0 \in 0 .. n OBVIOUS
      <4>2. f[0] = IF 0 = 0 THEN Map!EmptyTable(Map!NextPrime(2 * Map!Length(t)))
                   ELSE MoveOne(t, f[0 - 1], 0 - 1)
        BY <1>3, <4>1, Zenon DEF IsMoving
      <4> QED BY <1>1, <4>2 DEF p
    <3>2. f[0] \in Tables(p) /\ \A j \in DOMAIN f[0] : f[0][j] = Map!Free
      BY <3>1 DEF Map!EmptyTable, Tables, Entries
    <3>3. Map!Live(f[0]) = {} BY <3>2 DEF Map!Live
    <3>4. Before(t, 0) = {} 
      <4>1. Map!Live(t) \subseteq 0 .. n - 1 BY LiveFacts
      <4> QED BY <4>1 DEF Before
    <3>5. Moved(t, f[0], 0) BY <3>2, <3>3, <3>4 DEF Moved, LiveInPlace, KeysIn
    <3> QED BY <2>3, <2>4, <3>2, <3>5
  <2>5. CASE i # 0
    <3>1. PICK j \in 0 .. n - 1 : j = i - 1 /\ i = j + 1 /\ j < i BY <2>3, <2>5
    <3>2. j \notin Wrong
      <4> HIDE DEF Wrong
      <4> QED BY <2>2, <2>3, <3>1
    <3>3. f[j] \in Tables(p) /\ Moved(t, f[j], j) BY <3>1, <3>2
    <3>4. f[i] = MoveOne(t, f[i - 1], i - 1) BY <1>3, <2>3, <2>5, Zenon DEF IsMoving
    <3>5. MoveOne(t, f[j], j) \in Tables(p) /\ Moved(t, MoveOne(t, f[j], j), j + 1)
      BY <1>2, <3>3, MovesOne
    <3> QED BY <2>3, <3>1, <3>4, <3>5
  <2> QED BY <2>4, <2>5
<1>6. f[n] \in Tables(p) /\ Moved(t, f[n], n)
  <2>1. n \in 0 .. n /\ n \notin Wrong BY <1>5
  <2> QED BY <2>1
<1> HIDE DEF Wrong
<1>7. Before(t, n) = Map!Live(t)
  <2>1. Map!Live(t) \subseteq 0 .. n - 1 BY LiveFacts
  <2> QED BY <2>1 DEF Before
<1>8. LiveInPlace(f[n]) /\ Cardinality(Map!Live(f[n])) = Cardinality(Map!Live(t))
  BY <1>6, <1>7 DEF Moved
<1>9. ASSUME NEW c, Agrees(t, c) PROVE Agrees(f[n], c)
  <2>1. KeysIn(f[n]) = KeysIn(t) BY <1>6, <1>7 DEF Moved, KeysIn
  <2>2. ASSUME NEW i \in Map!Live(f[n]) PROVE c[f[n][i].key] = f[n][i].value
    <3>1. PICK j \in Map!Live(t) : t[j].key = f[n][i].key /\ t[j].value = f[n][i].value
      BY <1>6, <1>7 DEF Moved
    <3> QED BY <1>9, <3>1 DEF Agrees
  <2> QED BY <1>9, <2>1, <2>2 DEF Agrees
<1>10. p > 1 BY <1>2 DEF Prime
<1> QED BY <1>2, <1>4, <1>6, <1>8, <1>9, <1>10

-----------------------------------------------------------------------------
(* The map between two calls. *)
MapInv ==
  /\ \E n \in Nat : n > 1 /\ table \in Tables(n)
  /\ LiveInPlace(table)
  /\ size \in Nat /\ size >= Cardinality(Map!Live(table))
  /\ overwritten \in BOOLEAN
  /\ contents = [k \in DOMAIN contents |-> contents[k]] /\ DOMAIN contents \subseteq Keys
  /\ ~overwritten => Agrees(table, contents) /\ size = Cardinality(Map!Live(table))

LEMMA MapInvInit ==
  ASSUME HashesFit, Bertrand, Map!Init
  PROVE  MapInv
<1> DEFINE p == Map!NextPrime(CAPACITY)
<1>1. p \in Nat /\ p > 1
  <2>1. CASE CAPACITY <= 2 BY <2>1 DEF Map!NextPrime
  <2>2. CASE CAPACITY > 2 BY <2>2, NextIsPrime DEF HashesFit
  <2> QED BY <2>1, <2>2 DEF HashesFit
<1>2. table = Map!EmptyTable(p) BY DEF Map!Init
<1> HIDE DEF p
<1>3. table \in Tables(p) /\ \A i \in DOMAIN table : table[i] = Map!Free
  BY <1>2 DEF Map!EmptyTable, Tables, Entries
<1>4. Map!Live(table) = {} BY <1>3 DEF Map!Live
<1>5. Cardinality({}) = 0 BY FS_EmptySet
<1>6. contents = [k \in {} |-> k] /\ size = 0 /\ overwritten = FALSE BY DEF Map!Init
<1>7. DOMAIN contents = {} BY <1>6
<1>8. contents = [k \in DOMAIN contents |-> contents[k]] BY <1>6
<1>9. LiveInPlace(table) BY <1>4 DEF LiveInPlace
<1>10. KeysIn(table) = {} BY <1>4 DEF KeysIn
<1>11. Agrees(table, contents) BY <1>4, <1>7, <1>10 DEF Agrees
<1>12. size \in Nat /\ size = Cardinality(Map!Live(table)) BY <1>4, <1>5, <1>6
<1>13. DOMAIN contents \subseteq Keys /\ overwritten \in BOOLEAN BY <1>6, <1>7
<1>14. \E n \in Nat : n > 1 /\ table \in Tables(n) BY <1>1, <1>3
<1>15. size >= Cardinality(Map!Live(table)) BY <1>12
<1> QED BY <1>8, <1>9, <1>11, <1>12, <1>13, <1>14, <1>15 DEF MapInv

LEMMA PutInv ==
  ASSUME HashesFit, Bertrand, MapInv, Map!put
  PROVE  MapInv'
<1>1. PICK k \in Keys, x \in Values :
        LET grows == 4 * size >= 3 * Map!Length(table)
            t     == IF grows THEN Map!Resize(table) ELSE table
            cnt   == IF grows THEN Cardinality(Map!Live(table)) ELSE size
            old   == t[Map!Place(t, k)]
        IN  /\ table' = Map!Insert(t, k, x)
            /\ size' = IF Map!Found(t, k) THEN cnt ELSE cnt + 1
            /\ contents' = [y \in DOMAIN contents \cup {k} |-> IF y = k THEN x ELSE contents[y]]
            /\ overwritten' = (overwritten \/ (old # Map!Free /\ ~old.isDeleted /\ old.key # k))
  BY MapCardinality DEF Map!put
<1> DEFINE grows == 4 * size >= 3 * Map!Length(table)
           t     == IF grows THEN Map!Resize(table) ELSE table
           cnt   == IF grows THEN Cardinality(Map!Live(table)) ELSE size
           old   == t[Map!Place(t, k)]
<1>2. PICK n \in Nat : n > 1 /\ table \in Tables(n) BY DEF MapInv
<1>3. IsFiniteSet(Map!Live(table)) /\ Cardinality(Map!Live(table)) \in Nat BY <1>2, LiveFacts
<1>4. /\ \E p \in Nat : p > 1 /\ t \in Tables(p)
      /\ LiveInPlace(t)
      /\ cnt \in Nat /\ cnt >= Cardinality(Map!Live(t))
      /\ ~overwritten => Agrees(t, contents) /\ cnt = Cardinality(Map!Live(t))
  <2>1. CASE grows
    <3>1. t = Map!Resize(table) /\ cnt = Cardinality(Map!Live(table)) BY <2>1
    <3> HIDE DEF t, cnt
    <3>2. /\ \E p \in Nat : p > 1 /\ t \in Tables(p)
          /\ LiveInPlace(t)
          /\ Cardinality(Map!Live(t)) = Cardinality(Map!Live(table))
          /\ \A c : Agrees(table, c) => Agrees(t, c)
      BY <1>2, <3>1, Resized DEF MapInv
    <3> QED BY <1>3, <3>1, <3>2 DEF MapInv
  <2>2. CASE ~grows
    <3>1. t = table /\ cnt = size BY <2>2
    <3> HIDE DEF t, cnt
    <3> QED BY <1>2, <3>1 DEF MapInv
  <2> QED BY <2>1, <2>2
<1>5. /\ table' = Map!Insert(t, k, x)
      /\ size' = IF Map!Found(t, k) THEN cnt ELSE cnt + 1
      /\ contents' = [y \in DOMAIN contents \cup {k} |-> IF y = k THEN x ELSE contents[y]]
      /\ overwritten' = (overwritten \/ (old # Map!Free /\ ~old.isDeleted /\ old.key # k))
  BY <1>1
<1>6. old = t[Map!Place(t, k)] OBVIOUS
<1> HIDE DEF grows, t, cnt, old
<1>7. PICK p \in Nat : p > 1 /\ t \in Tables(p) BY <1>4
<1> DEFINE q == Map!Place(t, k)
<1>8. /\ table' \in Tables(p) /\ LiveInPlace(table')
      /\ Map!Live(table') = Map!Live(t) \cup {q}
      /\ q \in 0 .. p - 1
  BY <1>4, <1>5, <1>7, Inserted
<1>9. Map!Found(t, k) <=> q \in Map!Live(t) /\ t[q].key = k BY <1>4, <1>7, FoundIs
<1>10. q \in Map!Live(t) <=> old # Map!Free /\ ~old.isDeleted
  BY <1>6, <1>7, <1>8 DEF Map!Live, Tables
<1>11. IsFiniteSet(Map!Live(t)) /\ Cardinality(Map!Live(t)) \in Nat BY <1>7, LiveFacts
<1>12. size' \in Nat /\ size' >= Cardinality(Map!Live(table'))
  <2>1. CASE q \in Map!Live(t)
    <3>1. Map!Live(table') = Map!Live(t) BY <1>8, <2>1
    <3> QED BY <1>4, <1>5, <1>11, <3>1
  <2>2. CASE q \notin Map!Live(t)
    <3>1. Cardinality(Map!Live(t) \cup {q}) = Cardinality(Map!Live(t)) + 1
      BY <1>11, <2>2, FS_AddElement
    <3> QED BY <1>4, <1>5, <1>8, <1>9, <1>11, <2>2, <3>1
  <2> QED BY <2>1, <2>2
<1>13. ASSUME ~overwritten'
       PROVE  Agrees(table', contents') /\ size' = Cardinality(Map!Live(table'))
  <2>1. ~overwritten /\ ~(old # Map!Free /\ ~old.isDeleted /\ old.key # k) BY <1>5, <1>13
  <2>2. q \in Map!Live(t) => t[q].key = k BY <1>6, <1>10, <2>1
  <2>3. Agrees(t, contents) /\ cnt = Cardinality(Map!Live(t)) BY <1>4, <2>1
  <2>4. /\ Agrees(table', contents')
        /\ Cardinality(Map!Live(table')) =
             Cardinality(Map!Live(t)) + (IF Map!Found(t, k) THEN 0 ELSE 1)
    BY <1>4, <1>5, <1>7, <2>2, <2>3, PutAgrees
  <2> QED BY <1>5, <1>11, <2>3, <2>4
<1>14. contents' = [y \in DOMAIN contents' |-> contents'[y]] /\ DOMAIN contents' \subseteq Keys
  BY <1>5 DEF MapInv
<1>15. overwritten' \in BOOLEAN BY <1>5, Zenon DEF MapInv
<1>16. Cardinality(Map!Live(table))' = Cardinality(Map!Live(table'))
       /\ LiveInPlace(table)' = LiveInPlace(table')
       /\ Agrees(table, contents)' = Agrees(table', contents')
  BY DEF Map!Live, LiveInPlace, Agrees
<1> QED BY <1>7, <1>8, <1>12, <1>13, <1>14, <1>15, <1>16 DEF MapInv

LEMMA RemoveInv ==
  ASSUME HashesFit, MapInv, Map!remove
  PROVE  MapInv'
<1>1. PICK k \in Keys :
        /\ IF Map!Found(table, k)
           THEN table' = [table EXCEPT ![Map!Place(table, k)].isDeleted = TRUE] /\ size' = size - 1
           ELSE UNCHANGED <<table, size>>
        /\ contents' = [y \in DOMAIN contents \ {k} |-> contents[y]]
        /\ UNCHANGED overwritten
  BY DEF Map!remove
<1>2. PICK n \in Nat : n > 1 /\ table \in Tables(n) BY DEF MapInv
<1>3. IsFiniteSet(Map!Live(table)) /\ Cardinality(Map!Live(table)) \in Nat BY <1>2, LiveFacts
<1>4. /\ table' \in Tables(n) /\ LiveInPlace(table')
      /\ size' \in Nat /\ size' >= Cardinality(Map!Live(table'))
      /\ ~overwritten => /\ Agrees(table', contents')
                         /\ size' = Cardinality(Map!Live(table'))
  <2>1. CASE Map!Found(table, k)
    <3> DEFINE u == [table EXCEPT ![Map!Place(table, k)].isDeleted = TRUE]
    <3>1. /\ u \in Tables(n) /\ LiveInPlace(u)
          /\ Cardinality(Map!Live(u)) = Cardinality(Map!Live(table)) - 1
          /\ Cardinality(Map!Live(table)) > 0
          /\ \A c : Agrees(table, c) => Agrees(u, [y \in DOMAIN c \ {k} |-> c[y]])
      <4>1. n > 0 /\ LiveInPlace(table) BY <1>2 DEF MapInv
      <4> QED BY <1>2, <2>1, <4>1, RemoveAgrees
    <3>2. table' = u /\ size' = size - 1 BY <1>1, <2>1
    <3> HIDE DEF u
    <3> QED BY <1>1, <1>3, <3>1, <3>2 DEF MapInv
  <2>2. CASE ~Map!Found(table, k)
    <3>1. table' = table /\ size' = size BY <1>1, <2>2
    <3>2. ASSUME ~overwritten PROVE Agrees(table, contents')
      <4>1. k \notin KeysIn(table) BY <1>2, <2>2, FoundIs DEF MapInv
      <4>2. Agrees(table, contents) BY <3>2 DEF MapInv
      <4> QED BY <1>1, <4>1, <4>2 DEF Agrees, KeysIn
    <3> QED BY <1>2, <3>1, <3>2 DEF MapInv
  <2> QED BY <2>1, <2>2
<1>5. contents' = [y \in DOMAIN contents' |-> contents'[y]] /\ DOMAIN contents' \subseteq Keys
  BY <1>1 DEF MapInv
<1>6. overwritten' = overwritten BY <1>1
<1>7. Cardinality(Map!Live(table))' = Cardinality(Map!Live(table'))
       /\ LiveInPlace(table)' = LiveInPlace(table')
       /\ Agrees(table, contents)' = Agrees(table', contents')
  BY DEF Map!Live, LiveInPlace, Agrees
<1> QED BY <1>2, <1>4, <1>5, <1>6, <1>7 DEF MapInv

LEMMA MapSteps ==
  ASSUME [AllNext]_allvars
  PROVE  [Map!Next]_hashmap_vars
<1>1. CASE UNCHANGED allvars BY <1>1 DEF allvars
<1>2. CASE AllNext BY <1>2 DEF AllNext, Only
<1> QED BY <1>1, <1>2

(* HashMap: between two calls the search for the key of every entry that is  *)
(* not removed ends at it, and until a put has replaced another key the      *)
(* table and size are what the calls have put and not removed                *)
(* (GTUHashMap.java:15-80, 104-116).                                         *)
THEOREM MapInvariant == ASSUME HashesFit, Bertrand PROVE AllSpec => []MapInv
<1>1. AllInit => MapInv BY MapInvInit DEF AllInit
<1>2. MapInv /\ [AllNext]_allvars => MapInv'
  <2> SUFFICES ASSUME MapInv, [Map!Next]_hashmap_vars PROVE MapInv' BY MapSteps
  <2>1. CASE UNCHANGED hashmap_vars
    BY <2>1 DEF hashmap_vars, MapInv, LiveInPlace, Agrees, KeysIn, Map!Live
  <2>2. CASE Map!put BY <2>2, PutInv
  <2>3. CASE Map!remove BY <2>3, RemoveInv
  <2> QED BY <2>1, <2>2, <2>3 DEF Map!Next
<1> QED BY <1>1, <1>2, PTL DEF AllSpec

(* HashMap: get returns for every key what was put last and not removed      *)
(* since, and size is the number of those keys, for any keys and hashes      *)
(* (GTUHashMap.java:15-80, 104-116).                                         *)
THEOREM LookupsAreRight == ASSUME HashesFit, Bertrand PROVE AllSpec => []LookupsRight
<1>1. MapInv => LookupsRight
  <2> SUFFICES ASSUME MapInv, ~overwritten
               PROVE  /\ \A k \in Keys :
                           Map!get(k) = IF k \in DOMAIN contents THEN {contents[k]} ELSE {}
                      /\ size = Map!Cardinality(DOMAIN contents)
    BY DEF LookupsRight, Map!LookupsRight
  <2>1. PICK n \in Nat : n > 1 /\ table \in Tables(n) BY DEF MapInv
  <2>2. Agrees(table, contents) /\ LiveInPlace(table) /\ size = Cardinality(Map!Live(table))
    BY DEF MapInv
  <2>3. size = Map!Cardinality(DOMAIN contents)
    BY <2>1, <2>2, KeysOnce, MapCardinality DEF Agrees
  <2>4. ASSUME NEW k \in Keys
        PROVE  Map!get(k) = IF k \in DOMAIN contents THEN {contents[k]} ELSE {}
    <3>1. /\ Map!Found(table, k) <=> /\ Map!Place(table, k) \in Map!Live(table)
                                     /\ table[Map!Place(table, k)].key = k
          /\ Map!Found(table, k) <=> k \in DOMAIN contents
      BY <2>1, <2>2, FoundIs DEF Agrees
    <3> QED BY <2>2, <3>1 DEF Agrees, Map!get
  <2> QED BY <2>3, <2>4
<1>2. AllSpec => []MapInv BY MapInvariant
<1> QED BY <1>1, <1>2, PTL
-----------------------------------------------------------------------------
ConfigsRead == ConfigFiles \subseteq Seq(Int) /\ MaxTasks \in Nat

Tasks == [priority : Nat, id : Nat]
HeapsOf(m) == [1 .. m -> Tasks]

LEMMA SetInduction ==
  ASSUME NEW n \in Nat, NEW P, 0 \in P, \A i \in 0 .. n - 1 : i \in P => i + 1 \in P
  PROVE  \A i \in 0 .. n : i \in P
<1> DEFINE Wrong == {i \in 0 .. n : i \notin P}
<1>1. SUFFICES ASSUME Wrong # {} PROVE FALSE OBVIOUS
<1>2. PICK i \in Wrong : \A j \in Wrong : i <= j
  <2>1. Wrong \in SUBSET Nat OBVIOUS
  <2> HIDE DEF Wrong
  <2> QED BY <1>1, <2>1, Least
<1>3. i \in 0 .. n /\ i \notin P OBVIOUS
<1>4. i # 0 BY <1>3
<1>5. PICK j \in 0 .. n - 1 : i = j + 1 /\ j < i BY <1>3, <1>4
<1>6. j \notin Wrong
  <2> HIDE DEF Wrong
  <2> QED BY <1>2, <1>3, <1>5
<1>7. j \in P BY <1>5, <1>6
<1> QED BY <1>3, <1>5, <1>7

(* A loop of n passes G[1], ..., G[n] from a has its states one after the    *)
(* other. *)
Loop(f, n, a, G) == f = [i \in 0 .. n |-> IF i = 0 THEN a ELSE G[i][f[i - 1]]]

LEMMA LoopExists ==
  ASSUME NEW n \in Nat, NEW S, NEW a \in S, NEW G \in [1 .. n -> [S -> S]]
  PROVE  \E f \in [0 .. n -> S] : Loop(f, n, a, G)
<1> DEFINE P == {i \in 0 .. n : \E f \in [0 .. i -> S] : Loop(f, i, a, G)}
<1>1. 0 \in P
  <2> DEFINE f == [j \in 0 .. 0 |-> a]
  <2>1. f \in [0 .. 0 -> S] /\ Loop(f, 0, a, G) BY DEF Loop
  <2> QED BY <2>1
<1>2. ASSUME NEW i \in 0 .. n - 1, i \in P PROVE i + 1 \in P
  <2>1. PICK f \in [0 .. i -> S] : Loop(f, i, a, G) BY <1>2
  <2>2. i \in Nat /\ i + 1 \in 1 .. n OBVIOUS
  <2> DEFINE g == [j \in 0 .. i + 1 |-> IF j = i + 1 THEN G[i + 1][f[i]] ELSE f[j]]
  <2>3. g \in [0 .. i + 1 -> S] BY <2>1, <2>2
  <2>4. ASSUME NEW j \in 0 .. i + 1
        PROVE  g[j] = IF j = 0 THEN a ELSE G[j][g[j - 1]]
    <3>1. CASE j = i + 1
      <4>1. g[j] = G[i + 1][f[i]] /\ g[j - 1] = f[i] BY <3>1
      <4> QED BY <3>1, <4>1
    <3>2. CASE j # i + 1
      <4>1. j \in 0 .. i BY <3>2
      <4>2. g[j] = f[j] /\ (j # 0 => g[j - 1] = f[j - 1]) BY <3>2, <4>1
      <4>3. f[j] = IF j = 0 THEN a ELSE G[j][f[j - 1]] BY <2>1, <4>1, Zenon DEF Loop
      <4> HIDE DEF g
      <4> QED BY <4>2, <4>3
    <3> QED BY <3>1, <3>2
  <2>5. g = [j \in 0 .. i + 1 |-> g[j]] OBVIOUS
  <2>6. Loop(g, i + 1, a, G)
    <3> HIDE DEF g
    <3> QED BY <2>4, <2>5, Zenon DEF Loop
  <2> HIDE DEF g
  <2> QED BY <2>2, <2>3, <2>6
<1> HIDE DEF P
<1>3. \A i \in 0 .. n : i \in P BY <1>1, <1>2, SetInduction
<1>4. n \in P BY <1>3
<1> QED BY <1>4 DEF P

LEMMA Order ==
  /\ \A t, u \in Tasks : Tsk!Precedes(t, u) => ~Tsk!Precedes(u, t)
  /\ \A t, u, v \in Tasks : Tsk!Precedes(t, u) /\ Tsk!Precedes(u, v) => Tsk!Precedes(t, v)
  /\ \A t, u, v \in Tasks : ~Tsk!Precedes(t, u) /\ ~Tsk!Precedes(u, v) => ~Tsk!Precedes(t, v)
  /\ \A t, u \in Tasks : t.id # u.id /\ ~Tsk!Precedes(t, u) => Tsk!Precedes(u, t)
BY DEF Tasks, Tsk!Precedes

LEMMA Halves ==
  ASSUME NEW i \in Nat, i >= 2
  PROVE  /\ i \div 2 \in Nat /\ i \div 2 >= 1 /\ i \div 2 < i
         /\ i = 2 * (i \div 2) \/ i = 2 * (i \div 2) + 1
OBVIOUS

LEMMA HeapIsSeq ==
  ASSUME NEW m \in Nat, NEW S, NEW g \in [1 .. m -> S]
  PROVE  g \in Seq(S) /\ Len(g) = m /\ DOMAIN g = 1 .. m
OBVIOUS

LEMMA SeqIsHeap ==
  ASSUME NEW S, NEW g \in Seq(S)
  PROVE  Len(g) \in Nat /\ g \in [1 .. Len(g) -> S]
OBVIOUS

Heaped(g)   == \A i \in 2 .. Len(g) : ~Tsk!Precedes(g[i], g[i \div 2])
IdsOnce(g)  == \A i, j \in DOMAIN g : g[i].id = g[j].id => i = j
Members(g)  == {g[i] : i \in DOMAIN g}

LEMMA Swapped ==
  ASSUME NEW m \in Nat, NEW g \in HeapsOf(m), NEW a \in 1 .. m, NEW b \in 1 .. m, a # b
  PROVE  LET h == Tsk!Swap(g, a, b)
         IN  /\ h \in HeapsOf(m) /\ Members(h) = Members(g) /\ (IdsOnce(g) => IdsOnce(h))
             /\ h[a] = g[b] /\ h[b] = g[a]
             /\ \A i \in 1 .. m : i # a /\ i # b => h[i] = g[i]
<1> DEFINE h == Tsk!Swap(g, a, b)
<1>1. /\ h \in HeapsOf(m) /\ h[a] = g[b] /\ h[b] = g[a]
      /\ \A i \in 1 .. m : i # a /\ i # b => h[i] = g[i]
  BY DEF Tsk!Swap, HeapsOf
<1> HIDE DEF h
<1>2. DOMAIN g = 1 .. m /\ DOMAIN h = 1 .. m BY <1>1 DEF HeapsOf
<1>3. Members(h) = Members(g)
  <2>1. ASSUME NEW i \in 1 .. m PROVE h[i] \in Members(g) BY <1>1, <1>2 DEF Members
  <2>2. ASSUME NEW i \in 1 .. m PROVE g[i] \in Members(h)
    <3>1. CASE i = a BY <1>1, <1>2, <3>1 DEF Members
    <3>2. CASE i = b BY <1>1, <1>2, <3>2 DEF Members
    <3>3. CASE i # a /\ i # b BY <1>1, <1>2, <3>3 DEF Members
    <3> QED BY <3>1, <3>2, <3>3
  <2> QED BY <1>2, <2>1, <2>2 DEF Members
<1>4. ASSUME IdsOnce(g) PROVE IdsOnce(h)
  <2> SUFFICES ASSUME NEW i \in 1 .. m, NEW j \in 1 .. m, h[i].id = h[j].id PROVE i = j
    BY <1>2 DEF IdsOnce
  <2>1. \A x, y \in 1 .. m : g[x].id = g[y].id => x = y BY <1>2, <1>4 DEF IdsOnce
  <2>2. CASE i = a BY <1>1, <2>1, <2>2
  <2>3. CASE i = b BY <1>1, <2>1, <2>3
  <2>4. CASE i # a /\ i # b BY <1>1, <2>1, <2>4
  <2> QED BY <2>2, <2>3, <2>4
<1> QED BY <1>1, <1>3, <1>4 DEF h

(* The heap while an element goes up: it is in order but for the element c.  *)
GoingUp(g, c) ==
  /\ \A i \in 2 .. Len(g) : i # c => ~Tsk!Precedes(g[i], g[i \div 2])
  /\ c > 1 => \A i \in 2 .. Len(g) : i \div 2 = c => ~Tsk!Precedes(g[i], g[c \div 2])
IsUp(g, c) == c > 1 => ~Tsk!Precedes(g[c], g[c \div 2])

LEMMA UpPass ==
  ASSUME NEW m \in Nat, NEW g \in HeapsOf(m), NEW c \in 1 .. m, GoingUp(g, c)
  PROVE  LET s == Tsk!UpOnce(g, c)
         IN  /\ s \in HeapsOf(m) \X (1 .. m)
             /\ GoingUp(s[1], s[2])
             /\ Members(s[1]) = Members(g) /\ (IdsOnce(g) => IdsOnce(s[1]))
             /\ IsUp(g, c) => s = <<g, c>>
             /\ ~IsUp(g, c) => s[2] < c
<1>1. Len(g) = m BY HeapIsSeq DEF HeapsOf
<1>2. CASE IsUp(g, c)
  <2>1. Tsk!UpOnce(g, c) = <<g, c>> BY <1>2 DEF IsUp, Tsk!UpOnce
  <2> QED BY <1>2, <2>1
<1>3. CASE ~IsUp(g, c)
  <2>1. c > 1 /\ Tsk!Precedes(g[c], g[c \div 2]) BY <1>3 DEF IsUp
  <2>2. PICK p \in 1 .. m : p = c \div 2 /\ p < c BY <2>1, Halves
  <2> DEFINE h == Tsk!Swap(g, c, p)
  <2>3. Tsk!UpOnce(g, c) = <<h, p>> BY <2>1, <2>2 DEF Tsk!UpOnce
  <2>4. /\ h \in HeapsOf(m) /\ Members(h) = Members(g) /\ (IdsOnce(g) => IdsOnce(h))
        /\ h[c] = g[p] /\ h[p] = g[c]
        /\ \A i \in 1 .. m : i # c /\ i # p => h[i] = g[i]
    <3>1. c # p BY <2>2
    <3> QED BY <3>1, Swapped, Zenon
  <2> HIDE DEF h
  <2>5. Len(h) = m BY <2>4, HeapIsSeq DEF HeapsOf
  <2>6. \A i \in 1 .. m : g[i] \in Tasks BY DEF HeapsOf
  <2>7. ASSUME NEW i \in 2 .. m, i # p PROVE ~Tsk!Precedes(h[i], h[i \div 2])
    <3>1. PICK q \in 1 .. m : q = i \div 2 /\ q < i BY Halves
    <3>2. i \in 1 .. m OBVIOUS
    <3>3. CASE i = c BY <2>1, <2>2, <2>4, <2>6, <3>1, <3>3, Order
    <3>4. CASE i # c /\ q = c
      <4>1. ~Tsk!Precedes(g[i], g[p]) BY <1>1, <2>1, <2>2, <3>1, <3>4 DEF GoingUp
      <4> QED BY <2>4, <2>7, <3>1, <3>2, <3>4, <4>1
    <3>5. CASE i # c /\ q = p
      <4>1. ~Tsk!Precedes(g[i], g[p]) BY <1>1, <3>1, <3>5 DEF GoingUp
      <4>2. ~Tsk!Precedes(g[i], g[c]) BY <2>1, <2>2, <2>6, <3>2, <4>1, Order
      <4> QED BY <2>4, <2>7, <3>1, <3>2, <3>5, <4>2
    <3>6. CASE i # c /\ q # c /\ q # p
      <4>1. ~Tsk!Precedes(g[i], g[q]) BY <1>1, <3>1, <3>6 DEF GoingUp
      <4> QED BY <2>4, <2>7, <3>1, <3>2, <3>6, <4>1
    <3> QED BY <3>3, <3>4, <3>5, <3>6
  <2>8. ASSUME p > 1, NEW i \in 2 .. m, i \div 2 = p PROVE ~Tsk!Precedes(h[i], h[p \div 2])
    <3>1. PICK q \in 1 .. m : q = p \div 2 /\ q < p BY <2>8, Halves
    <3>2. i \in 1 .. m /\ p < i BY <2>8, Halves
    <3>3. ~Tsk!Precedes(g[p], g[q]) BY <1>1, <2>2, <2>8, <3>1 DEF GoingUp
    <3>4. h[q] = g[q] BY <2>2, <2>4, <3>1
    <3>5. CASE i = c BY <2>4, <3>1, <3>3, <3>4, <3>5
    <3>6. CASE i # c
      <4>1. ~Tsk!Precedes(g[i], g[p]) BY <1>1, <2>8, <3>6 DEF GoingUp
      <4>2. ~Tsk!Precedes(g[i], g[q]) BY <2>6, <3>2, <3>3, <4>1, Order
      <4> QED BY <2>4, <3>1, <3>2, <3>4, <3>6, <4>2
    <3> QED BY <3>5, <3>6
  <2>9. GoingUp(h, p) BY <2>5, <2>7, <2>8 DEF GoingUp
  <2> QED BY <1>3, <2>2, <2>3, <2>4, <2>9
<1> QED BY <1>2, <1>3

(* The heap while an element goes down: in order but for the children of p.  *)
GoingDown(g, p) ==
  /\ \A i \in 2 .. Len(g) : i \div 2 # p => ~Tsk!Precedes(g[i], g[i \div 2])
  /\ p > 1 => \A i \in 2 .. Len(g) : i \div 2 = p => ~Tsk!Precedes(g[i], g[p \div 2])
IsDown(g, p) == \A i \in 2 .. Len(g) : i \div 2 = p => ~Tsk!Precedes(g[i], g[p])

LEMMA DownPass ==
  ASSUME NEW m \in Nat, NEW g \in HeapsOf(m), NEW p \in 1 .. m, GoingDown(g, p)
  PROVE  LET s == Tsk!DownOnce(g, p)
         IN  /\ s \in HeapsOf(m) \X (1 .. m)
             /\ GoingDown(s[1], s[2])
             /\ Members(s[1]) = Members(g) /\ (IdsOnce(g) => IdsOnce(s[1]))
             /\ IsDown(g, p) => s = <<g, p>>
             /\ ~IsDown(g, p) => s[2] > p
<1>1. Len(g) = m BY HeapIsSeq DEF HeapsOf
<1>2. \A i \in 1 .. m : g[i] \in Tasks BY DEF HeapsOf
<1> DEFINE left == 2 * p
           lower == IF left < m /\ Tsk!Precedes(g[left + 1], g[left]) THEN left + 1 ELSE left
<1>3. Tsk!DownOnce(g, p) = IF left <= m /\ Tsk!Precedes(g[lower], g[p])
                           THEN <<Tsk!Swap(g, p, lower), lower>> ELSE <<g, p>>
  BY <1>1 DEF Tsk!DownOnce
<1>4. CASE left <= m
  <2>1. PICK c \in 1 .. m : c = lower BY <1>4
  <2>2. c > p /\ c \div 2 = p BY <2>1
  <2>3. \A i \in 2 .. m : i \div 2 = p => i = c \/ ~Tsk!Precedes(g[i], g[c])
    <3> SUFFICES ASSUME NEW i \in 2 .. m, i \div 2 = p, i # c PROVE ~Tsk!Precedes(g[i], g[c])
      OBVIOUS
    <3>1. i = left \/ i = left + 1 BY Halves
    <3>2. CASE left < m /\ Tsk!Precedes(g[left + 1], g[left])
      <4>1. c = left + 1 /\ i = left BY <2>1, <3>1, <3>2
      <4>2. i \in 1 .. m OBVIOUS
      <4>3. Tsk!Precedes(g[c], g[i]) BY <3>2, <4>1
      <4> HIDE DEF left
      <4> QED BY <1>2, <4>2, <4>3, Order
    <3>3. CASE ~(left < m /\ Tsk!Precedes(g[left + 1], g[left]))
      <4>1. c = left /\ i = left + 1 BY <2>1, <3>1, <3>3
      <4>2. left < m BY <4>1
      <4> QED BY <3>3, <4>1, <4>2
    <3> QED BY <3>2, <3>3
  <2>4. Tsk!DownOnce(g, p) = IF Tsk!Precedes(g[c], g[p]) THEN <<Tsk!Swap(g, p, c), c>> ELSE <<g, p>>
    BY <1>3, <1>4, <2>1
  <2> HIDE DEF lower, left
  <2>5. c \in 2 .. m BY <2>2
  <2>6. IsDown(g, p) <=> ~Tsk!Precedes(g[c], g[p])
    <3>1. IsDown(g, p) => ~Tsk!Precedes(g[c], g[p]) BY <1>1, <2>2, <2>5 DEF IsDown
    <3>2. ASSUME ~Tsk!Precedes(g[c], g[p]), NEW i \in 2 .. m, i \div 2 = p
          PROVE  ~Tsk!Precedes(g[i], g[p])
      <4>1. CASE i = c BY <3>2, <4>1
      <4>2. CASE i # c
        <5>1. ~Tsk!Precedes(g[i], g[c]) /\ i \in 1 .. m BY <2>3, <3>2, <4>2
        <5> QED BY <1>2, <3>2, <5>1, Order
      <4> QED BY <4>1, <4>2
    <3> QED BY <1>1, <3>1, <3>2 DEF IsDown
  <2>7. CASE ~Tsk!Precedes(g[c], g[p]) BY <2>4, <2>6, <2>7
  <2>8. CASE Tsk!Precedes(g[c], g[p])
    <3> DEFINE h == Tsk!Swap(g, p, c)
    <3>1. Tsk!DownOnce(g, p) = <<h, c>> BY <2>4, <2>8
    <3>2. /\ h \in HeapsOf(m) /\ Members(h) = Members(g) /\ (IdsOnce(g) => IdsOnce(h))
          /\ h[p] = g[c] /\ h[c] = g[p]
          /\ \A i \in 1 .. m : i # p /\ i # c => h[i] = g[i]
      <4>1. c # p BY <2>2
      <4> QED BY <4>1, Swapped, Zenon
    <3> HIDE DEF h
    <3>3. Len(h) = m BY <3>2, HeapIsSeq DEF HeapsOf
    <3>4. ASSUME NEW i \in 2 .. m, i \div 2 # c PROVE ~Tsk!Precedes(h[i], h[i \div 2])
      <4>1. PICK q \in 1 .. m : q = i \div 2 /\ q < i BY Halves
      <4>2. i \in 1 .. m OBVIOUS
      <4>3. CASE i = c BY <1>2, <2>2, <2>8, <3>2, <4>3, Order
      <4>4. CASE i # c /\ q = p
        <5>1. ~Tsk!Precedes(g[i], g[c]) BY <2>3, <4>1, <4>4
        <5> QED BY <3>2, <4>1, <4>2, <4>4, <5>1
      <4>5. CASE i = p
        <5>1. ~Tsk!Precedes(g[c], g[q]) BY <1>1, <2>2, <2>5, <4>1, <4>5 DEF GoingDown
        <5>2. q # c /\ q # p BY <2>2, <4>1, <4>5
        <5> QED BY <3>2, <4>1, <4>5, <5>1, <5>2
      <4>6. CASE i # c /\ i # p /\ q # p
        <5>1. ~Tsk!Precedes(g[i], g[q]) BY <1>1, <4>1, <4>6 DEF GoingDown
        <5>2. q # c BY <3>4, <4>1
        <5> QED BY <3>2, <4>1, <4>2, <4>6, <5>1, <5>2
      <4> QED BY <4>3, <4>4, <4>5, <4>6
    <3>5. ASSUME NEW i \in 2 .. m, i \div 2 = c PROVE ~Tsk!Precedes(h[i], h[c \div 2])
      <4>1. c < i /\ i \in 1 .. m BY <3>5, Halves
      <4>2. ~Tsk!Precedes(g[i], g[c]) BY <1>1, <2>2, <3>5 DEF GoingDown
      <4>3. h[i] = g[i] BY <2>2, <3>2, <4>1
      <4> QED BY <2>2, <3>2, <4>2, <4>3
    <3>6. GoingDown(h, c) BY <3>3, <3>4, <3>5 DEF GoingDown
    <3> QED BY <2>2, <2>6, <2>8, <3>1, <3>2, <3>6
  <2> QED BY <2>7, <2>8
<1>5. CASE left > m
  <2>1. Tsk!DownOnce(g, p) = <<g, p>> BY <1>3, <1>5
  <2>2. IsDown(g, p) BY <1>1, <1>5, Halves DEF IsDown
  <2> QED BY <2>1, <2>2
<1> QED BY <1>4, <1>5

(* What the two loops make of a heap, when they have all the passes that     *)
(* they need. *)
LEMMA UpHeaps ==
  ASSUME NEW m \in Nat, NEW h \in HeapsOf(m), NEW c \in 1 .. m, GoingUp(h, c), IdsOnce(h)
  PROVE  LET g == Tsk!Up(h, c)
         IN  g \in HeapsOf(m) /\ Heaped(g) /\ Members(g) = Members(h) /\ IdsOnce(g)
<1> DEFINE T == {s \in HeapsOf(m) \X (1 .. m) :
                   GoingUp(s[1], s[2]) /\ IdsOnce(s[1]) /\ Members(s[1]) = Members(h)}
           G == [i \in 1 .. m |-> [s \in T |-> Tsk!UpOnce(s[1], s[2])]]
           a == <<h, c>>
           up == CHOOSE f : f = [i \in 0 .. m |->
                   IF i = 0 THEN a ELSE LET s == f[i - 1] IN Tsk!UpOnce(s[1], s[2])]
<1>1. Len(h) = m BY HeapIsSeq DEF HeapsOf
<1>2. Tsk!Up(h, c) = up[m][1] BY <1>1 DEF Tsk!Up
<1>3. ASSUME NEW s \in T
      PROVE  /\ Tsk!UpOnce(s[1], s[2]) \in T
             /\ IsUp(s[1], s[2]) => Tsk!UpOnce(s[1], s[2]) = s
             /\ ~IsUp(s[1], s[2]) => Tsk!UpOnce(s[1], s[2])[2] < s[2]
  <2>1. PICK g \in HeapsOf(m), d \in 1 .. m : s = <<g, d>> BY DEF T
  <2>2. GoingUp(g, d) /\ IdsOnce(g) /\ Members(g) = Members(h) BY <2>1
  <2>3. /\ Tsk!UpOnce(g, d) \in HeapsOf(m) \X (1 .. m)
        /\ GoingUp(Tsk!UpOnce(g, d)[1], Tsk!UpOnce(g, d)[2])
        /\ Members(Tsk!UpOnce(g, d)[1]) = Members(h) /\ IdsOnce(Tsk!UpOnce(g, d)[1])
        /\ IsUp(g, d) => Tsk!UpOnce(g, d) = <<g, d>>
        /\ ~IsUp(g, d) => Tsk!UpOnce(g, d)[2] < d
    BY <2>2, UpPass
  <2> QED BY <2>1, <2>3
<1>4. a \in T OBVIOUS
<1>5. up = [i \in 0 .. m |->
              IF i = 0 THEN a ELSE LET s == up[i - 1] IN Tsk!UpOnce(s[1], s[2])]
  <2> HIDE DEF T, a
  <2>1. G \in [1 .. m -> [T -> T]] BY <1>3
  <2> HIDE DEF G
  <2>2. PICK f \in [0 .. m -> T] : Loop(f, m, a, G) BY <1>4, <2>1, LoopExists
  <2>3. ASSUME NEW i \in 0 .. m, i # 0
        PROVE  G[i][f[i - 1]] = Tsk!UpOnce(f[i - 1][1], f[i - 1][2])
    <3>1. f[i - 1] \in T /\ i \in 1 .. m BY <2>2, <2>3
    <3> QED BY <3>1 DEF G
  <2>4. f = [i \in 0 .. m |->
              IF i = 0 THEN a ELSE LET s == f[i - 1] IN Tsk!UpOnce(s[1], s[2])]
    BY <2>2, <2>3, Zenon DEF Loop
  <2> QED BY <2>4, Zenon
<1> HIDE DEF up
<1> DEFINE P == {i \in 0 .. m : /\ up[i] \in T
                                /\ IsUp(up[i][1], up[i][2]) \/ up[i][2] <= c - i}
<1>6. 0 \in P
  <2>1. up[0] = a
    <3>1. 0 \in 0 .. m OBVIOUS
    <3> QED BY <1>5, <3>1, Zenon
  <2>2. up[0][2] = c BY <2>1
  <2> QED BY <1>4, <2>1, <2>2
<1>7. ASSUME NEW i \in 0 .. m - 1, i \in P PROVE i + 1 \in P
  <2> HIDE DEF T
  <2>1. PICK s \in T : s = up[i] /\ (IsUp(s[1], s[2]) \/ s[2] <= c - i) BY <1>7
  <2>2. up[i + 1] = Tsk!UpOnce(s[1], s[2])
    <3>1. i + 1 \in 0 .. m /\ i + 1 # 0 /\ (i + 1) - 1 = i OBVIOUS
    <3> QED BY <1>5, <2>1, <3>1, Zenon
  <2>3. PICK r \in T : r = Tsk!UpOnce(s[1], s[2]) BY <1>3
  <2>4. IsUp(r[1], r[2]) \/ r[2] <= c - (i + 1)
    <3>1. CASE IsUp(s[1], s[2]) BY <1>3, <2>3, <3>1
    <3>2. CASE ~IsUp(s[1], s[2])
      <4>1. r[2] < s[2] BY <1>3, <2>3, <3>2
      <4>2. r[2] \in Int /\ s[2] \in Int BY DEF T
      <4> QED BY <2>1, <3>2, <4>1, <4>2
    <3> QED BY <3>1, <3>2
  <2> QED BY <2>2, <2>3, <2>4
<1>8. m \in P
  <2> HIDE DEF P
  <2>1. \A i \in 0 .. m : i \in P BY <1>6, <1>7, SetInduction
  <2> QED BY <2>1
<1>9. PICK g \in HeapsOf(m), d \in 1 .. m :
        /\ up[m] = <<g, d>> /\ GoingUp(g, d) /\ IdsOnce(g) /\ Members(g) = Members(h)
        /\ IsUp(g, d) \/ d <= c - m
  BY <1>8
<1>10. IsUp(g, d) BY <1>9
<1>11. Len(g) = m BY HeapIsSeq DEF HeapsOf
<1>12. Heaped(g) BY <1>9, <1>10, <1>11, Halves DEF Heaped, GoingUp, IsUp
<1> QED BY <1>2, <1>9, <1>12

LEMMA DownHeaps ==
  ASSUME NEW m \in Nat, NEW h \in HeapsOf(m), NEW c \in 1 .. m, GoingDown(h, c), IdsOnce(h)
  PROVE  LET g == Tsk!Down(h, c)
         IN  g \in HeapsOf(m) /\ Heaped(g) /\ Members(g) = Members(h) /\ IdsOnce(g)
<1> DEFINE T == {s \in HeapsOf(m) \X (1 .. m) :
                   GoingDown(s[1], s[2]) /\ IdsOnce(s[1]) /\ Members(s[1]) = Members(h)}
           G == [i \in 1 .. m |-> [s \in T |-> Tsk!DownOnce(s[1], s[2])]]
           a == <<h, c>>
           down == CHOOSE f : f = [i \in 0 .. m |->
                   IF i = 0 THEN a ELSE LET s == f[i - 1] IN Tsk!DownOnce(s[1], s[2])]
<1>1. Len(h) = m BY HeapIsSeq DEF HeapsOf
<1>2. Tsk!Down(h, c) = down[m][1] BY <1>1 DEF Tsk!Down
<1>3. ASSUME NEW s \in T
      PROVE  /\ Tsk!DownOnce(s[1], s[2]) \in T
             /\ IsDown(s[1], s[2]) => Tsk!DownOnce(s[1], s[2]) = s
             /\ ~IsDown(s[1], s[2]) => Tsk!DownOnce(s[1], s[2])[2] > s[2]
  <2>1. PICK g \in HeapsOf(m), d \in 1 .. m : s = <<g, d>> BY DEF T
  <2>2. GoingDown(g, d) /\ IdsOnce(g) /\ Members(g) = Members(h) BY <2>1
  <2>3. /\ Tsk!DownOnce(g, d) \in HeapsOf(m) \X (1 .. m)
        /\ GoingDown(Tsk!DownOnce(g, d)[1], Tsk!DownOnce(g, d)[2])
        /\ Members(Tsk!DownOnce(g, d)[1]) = Members(h) /\ IdsOnce(Tsk!DownOnce(g, d)[1])
        /\ IsDown(g, d) => Tsk!DownOnce(g, d) = <<g, d>>
        /\ ~IsDown(g, d) => Tsk!DownOnce(g, d)[2] > d
    BY <2>2, DownPass
  <2> QED BY <2>1, <2>3
<1>4. a \in T OBVIOUS
<1>5. down = [i \in 0 .. m |->
              IF i = 0 THEN a ELSE LET s == down[i - 1] IN Tsk!DownOnce(s[1], s[2])]
  <2> HIDE DEF T, a
  <2>1. G \in [1 .. m -> [T -> T]] BY <1>3
  <2> HIDE DEF G
  <2>2. PICK f \in [0 .. m -> T] : Loop(f, m, a, G) BY <1>4, <2>1, LoopExists
  <2>3. ASSUME NEW i \in 0 .. m, i # 0
        PROVE  G[i][f[i - 1]] = Tsk!DownOnce(f[i - 1][1], f[i - 1][2])
    <3>1. f[i - 1] \in T /\ i \in 1 .. m BY <2>2, <2>3
    <3> QED BY <3>1 DEF G
  <2>4. f = [i \in 0 .. m |->
              IF i = 0 THEN a ELSE LET s == f[i - 1] IN Tsk!DownOnce(s[1], s[2])]
    BY <2>2, <2>3, Zenon DEF Loop
  <2> QED BY <2>4, Zenon
<1> HIDE DEF down
<1> DEFINE P == {i \in 0 .. m : /\ down[i] \in T
                                /\ IsDown(down[i][1], down[i][2]) \/ down[i][2] >= c + i}
<1>6. 0 \in P
  <2>1. down[0] = a
    <3>1. 0 \in 0 .. m OBVIOUS
    <3> QED BY <1>5, <3>1, Zenon
  <2>2. down[0][2] = c BY <2>1
  <2> QED BY <1>4, <2>1, <2>2
<1>7. ASSUME NEW i \in 0 .. m - 1, i \in P PROVE i + 1 \in P
  <2> HIDE DEF T
  <2>1. PICK s \in T : s = down[i] /\ (IsDown(s[1], s[2]) \/ s[2] >= c + i) BY <1>7
  <2>2. down[i + 1] = Tsk!DownOnce(s[1], s[2])
    <3>1. i + 1 \in 0 .. m /\ i + 1 # 0 /\ (i + 1) - 1 = i OBVIOUS
    <3> QED BY <1>5, <2>1, <3>1, Zenon
  <2>3. PICK r \in T : r = Tsk!DownOnce(s[1], s[2]) BY <1>3
  <2>4. IsDown(r[1], r[2]) \/ r[2] >= c + (i + 1)
    <3>1. CASE IsDown(s[1], s[2]) BY <1>3, <2>3, <3>1
    <3>2. CASE ~IsDown(s[1], s[2])
      <4>1. r[2] > s[2] BY <1>3, <2>3, <3>2
      <4>2. r[2] \in Int /\ s[2] \in Int BY DEF T
      <4> QED BY <2>1, <3>2, <4>1, <4>2
    <3> QED BY <3>1, <3>2
  <2> QED BY <2>2, <2>3, <2>4
<1>8. m \in P
  <2> HIDE DEF P
  <2>1. \A i \in 0 .. m : i \in P BY <1>6, <1>7, SetInduction
  <2> QED BY <2>1
<1>9. PICK g \in HeapsOf(m), d \in 1 .. m :
        /\ down[m] = <<g, d>> /\ GoingDown(g, d) /\ IdsOnce(g) /\ Members(g) = Members(h)
        /\ IsDown(g, d) \/ d >= c + m
  BY <1>8
<1>10. IsDown(g, d) BY <1>9
<1>11. Len(g) = m BY HeapIsSeq DEF HeapsOf
<1>12. Heaped(g) BY <1>9, <1>10, <1>11, Halves DEF Heaped, GoingDown, IsDown
<1> QED BY <1>2, <1>9, <1>12

(* The root of a heap comes before everything else in it. *)
LEMMA RootFirst ==
  ASSUME NEW m \in Nat, NEW g \in HeapsOf(m), Heaped(g), NEW i \in 1 .. m
  PROVE  ~Tsk!Precedes(g[i], g[1])
<1> DEFINE Wrong == {j \in 1 .. m : Tsk!Precedes(g[j], g[1])}
<1>1. SUFFICES ASSUME Wrong # {} PROVE FALSE OBVIOUS
<1>2. PICK j \in Wrong : \A l \in Wrong : j <= l
  <2>1. Wrong \in SUBSET Nat OBVIOUS
  <2> HIDE DEF Wrong
  <2> QED BY <1>1, <2>1, Least
<1>3. j \in 1 .. m /\ Tsk!Precedes(g[j], g[1]) OBVIOUS
<1>4. Len(g) = m /\ \A l \in 1 .. m : g[l] \in Tasks BY HeapIsSeq DEF HeapsOf
<1>5. j # 1
  <2>1. 1 \in 1 .. m BY <1>3
  <2> QED BY <1>3, <1>4, <2>1, Order
<1>6. j \in 2 .. m BY <1>3, <1>5
<1>7. PICK q \in 1 .. m : q = j \div 2 /\ q < j BY <1>6, Halves
<1>8. q \notin Wrong
  <2> HIDE DEF Wrong
  <2> QED BY <1>2, <1>3, <1>7
<1>9. ~Tsk!Precedes(g[q], g[1]) BY <1>8
<1>10. ~Tsk!Precedes(g[j], g[q]) BY <1>4, <1>6, <1>7 DEF Heaped
<1>11. 1 \in 1 .. m BY <1>3
<1> QED BY <1>3, <1>4, <1>7, <1>9, <1>10, <1>11, Order

LEMMA Added ==
  ASSUME NEW h \in Seq(Tasks), Heaped(h), IdsOnce(h), NEW task \in Tasks,
         \A i \in DOMAIN h : h[i].id # task.id
  PROVE  LET g == Tsk!add(h, task)
         IN  /\ g \in Seq(Tasks) /\ Len(g) = Len(h) + 1 /\ Heaped(g) /\ IdsOnce(g)
             /\ Members(g) = Members(h) \cup {task}
<1> DEFINE m == Len(h) + 1
           a == Append(h, task)
<1>1. m \in Nat /\ m \in 1 .. m OBVIOUS
<1>2. a \in Seq(Tasks) /\ Len(a) = m /\ a[m] = task /\ \A i \in 1 .. Len(h) : a[i] = h[i] OBVIOUS
<1>3. a \in HeapsOf(m) BY <1>2, SeqIsHeap DEF HeapsOf
<1>4. DOMAIN a = 1 .. m /\ DOMAIN h = 1 .. Len(h) BY <1>2
<1>5. Tsk!add(h, task) = Tsk!Up(a, m) BY DEF Tsk!add
<1>6. Len(h) \in Nat OBVIOUS
<1> HIDE DEF a
<1>7. GoingUp(a, m)
  <2>1. ASSUME NEW i \in 2 .. m, i # m PROVE ~Tsk!Precedes(a[i], a[i \div 2])
    <3>1. i \in 2 .. Len(h) /\ i \in 1 .. Len(h) BY <2>1
    <3>2. PICK q \in 1 .. Len(h) : q = i \div 2 BY <3>1, Halves
    <3> QED BY <1>2, <3>1, <3>2 DEF Heaped
  <2>2. ASSUME NEW i \in 2 .. m, i \div 2 = m PROVE FALSE BY <2>2, Halves
  <2> QED BY <1>2, <2>1, <2>2 DEF GoingUp
<1>8. IdsOnce(a)
  <2> SUFFICES ASSUME NEW i \in 1 .. m, NEW j \in 1 .. m, a[i].id = a[j].id PROVE i = j
    BY <1>4 DEF IdsOnce
  <2>1. \A l \in 1 .. m : l = m \/ l \in 1 .. Len(h) BY <1>6
  <2> HIDE DEF m
  <2>2. CASE i = m /\ j = m BY <2>2
  <2>3. CASE i = m /\ j \in 1 .. Len(h) BY <1>2, <1>4, <2>3
  <2>4. CASE j = m /\ i \in 1 .. Len(h) BY <1>2, <1>4, <2>4
  <2>5. CASE i \in 1 .. Len(h) /\ j \in 1 .. Len(h) BY <1>2, <1>4, <2>5 DEF IdsOnce
  <2> QED BY <2>1, <2>2, <2>3, <2>4, <2>5
<1>9. Members(a) = Members(h) \cup {task}
  <2>1. \A l \in 1 .. m : l = m \/ l \in 1 .. Len(h) BY <1>6
  <2>2. m \in 1 .. m /\ \A l \in 1 .. Len(h) : l \in 1 .. m BY <1>6
  <2> HIDE DEF m
  <2> QED BY <1>2, <1>4, <2>1, <2>2 DEF Members
<1>10. PICK g : g = Tsk!Up(a, m) /\ g \in HeapsOf(m) /\ Heaped(g) /\ Members(g) = Members(a) /\ IdsOnce(g)
  BY <1>1, <1>3, <1>7, <1>8, UpHeaps
<1>11. g \in Seq(Tasks) /\ Len(g) = m BY <1>1, <1>10, HeapIsSeq DEF HeapsOf
<1> QED BY <1>5, <1>9, <1>10, <1>11

LEMMA Polled ==
  ASSUME NEW h \in Seq(Tasks), h # <<>>, Heaped(h), IdsOnce(h)
  PROVE  LET g == Tsk!AfterPoll(h)
         IN  /\ g \in Seq(Tasks) /\ Len(g) = Len(h) - 1 /\ Heaped(g) /\ IdsOnce(g)
             /\ Members(g) = Members(h) \ {h[1]}
             /\ h[1] \in Members(h) /\ \A task \in Members(g) : Tsk!Precedes(h[1], task)
<1> DEFINE n == Len(h)
           m == Len(h) - 1
<1>1. n \in Nat /\ n >= 1 /\ m \in Nat /\ DOMAIN h = 1 .. n /\ \A i \in 1 .. n : h[i] \in Tasks
  OBVIOUS
<1>2. h[1] \in Members(h) BY <1>1 DEF Members
<1>3. ASSUME NEW task \in Members(h), task # h[1] PROVE Tsk!Precedes(h[1], task)
  <2>1. PICK i \in 1 .. n : task = h[i] BY <1>1 DEF Members
  <2>2. i # 1 /\ 1 \in 1 .. n BY <1>1, <1>3, <2>1
  <2>3. h[i].id # h[1].id BY <1>1, <2>2 DEF IdsOnce
  <2>4. ~Tsk!Precedes(h[i], h[1])
    <3>1. h \in HeapsOf(n) BY SeqIsHeap DEF HeapsOf
    <3> QED BY <1>1, <3>1, RootFirst
  <2> QED BY <1>1, <2>1, <2>2, <2>3, <2>4, Order
<1>4. PICK g : /\ g = Tsk!AfterPoll(h) /\ g \in Seq(Tasks) /\ Len(g) = m /\ Heaped(g) /\ IdsOnce(g)
               /\ Members(g) = Members(h) \ {h[1]}
  <2>1. CASE n = 1
    <3>1. Tsk!AfterPoll(h) = <<>> BY <2>1 DEF Tsk!AfterPoll
    <3>2. Members(h) = {h[1]} BY <1>1, <2>1 DEF Members
    <3>3. /\ <<>> \in Seq(Tasks) /\ Len(<<>>) = m /\ Heaped(<<>>) /\ IdsOnce(<<>>)
          /\ Members(<<>>) = {}
      BY <2>1 DEF Heaped, IdsOnce, Members
    <3> QED BY <3>1, <3>2, <3>3
  <2>2. CASE n # 1
    <3> DEFINE a == <<h[n]>> \o SubSeq(h, 2, n - 1)
    <3>1. n >= 2 /\ 1 \in 1 .. m /\ n \in 1 .. n BY <1>1, <2>2
    <3>2. /\ a \in Seq(Tasks) /\ Len(a) = m /\ a[1] = h[n]
          /\ \A i \in 2 .. m : a[i] = h[i]
      <4>1. SubSeq(h, 2, n - 1) \in Seq(Tasks) /\ Len(SubSeq(h, 2, n - 1)) = n - 2
            /\ \A i \in 1 .. n - 2 : SubSeq(h, 2, n - 1)[i] = h[i + 1]
        BY <1>1, <3>1
      <4>2. <<h[n]>> \in Seq(Tasks) BY <1>1, <3>1
      <4> QED BY <1>1, <3>1, <4>1, <4>2
    <3>3. Tsk!AfterPoll(h) = Tsk!Down(a, 1) BY <2>2 DEF Tsk!AfterPoll, Tsk!Last
    <3> HIDE DEF a
    <3>4. a \in HeapsOf(m) /\ DOMAIN a = 1 .. m BY <3>2, SeqIsHeap DEF HeapsOf
    <3>5. GoingDown(a, 1)
      <4> SUFFICES ASSUME NEW i \in 2 .. m, i \div 2 # 1 PROVE ~Tsk!Precedes(a[i], a[i \div 2])
        BY <3>2 DEF GoingDown
      <4>1. PICK q \in 2 .. m : q = i \div 2 BY Halves
      <4>2. i \in 2 .. n OBVIOUS
      <4> QED BY <3>2, <4>1, <4>2 DEF Heaped
    <3>0. n \in Nat /\ m = n - 1 /\ n >= 2 BY <1>1, <3>1
    <3>10. \A i, j \in 1 .. n : h[i].id = h[j].id => i = j BY <1>1 DEF IdsOnce
    <3> HIDE DEF n, m
    <3>6. \A i \in 1 .. m : i = 1 \/ i \in 2 .. m BY <3>0
    <3>7. \A i \in 2 .. m : i \in 1 .. m /\ i \in 1 .. n /\ i # n /\ i # 1 BY <3>0
    <3>8. \A i \in 1 .. n : i = 1 \/ i = n \/ i \in 2 .. m BY <3>0
    <3>9. n # 1 /\ 1 \in 1 .. n BY <3>0
    <3>11. IdsOnce(a)
      <4> SUFFICES ASSUME NEW i \in 1 .. m, NEW j \in 1 .. m, a[i].id = a[j].id PROVE i = j
        BY <3>4 DEF IdsOnce
      <4>1. CASE i = 1 /\ j = 1 BY <4>1
      <4>2. CASE i = 1 /\ j \in 2 .. m BY <3>1, <3>2, <3>7, <3>10, <4>2
      <4>3. CASE j = 1 /\ i \in 2 .. m BY <3>1, <3>2, <3>7, <3>10, <4>3
      <4>4. CASE i \in 2 .. m /\ j \in 2 .. m BY <3>2, <3>7, <3>10, <4>4
      <4> QED BY <3>6, <4>1, <4>2, <4>3, <4>4
    <3>12. Members(a) = Members(h) \ {h[1]}
      <4>1. ASSUME NEW i \in 1 .. m PROVE a[i] \in Members(h) \ {h[1]}
        <5>1. CASE i = 1 BY <1>1, <3>1, <3>2, <3>9, <3>10, <5>1 DEF Members
        <5>2. CASE i \in 2 .. m BY <1>1, <3>2, <3>7, <3>9, <3>10, <5>2 DEF Members
        <5> QED BY <3>6, <5>1, <5>2
      <4>2. ASSUME NEW i \in 1 .. n, h[i] # h[1] PROVE h[i] \in Members(a)
        <5>1. CASE i = n BY <3>1, <3>2, <3>4, <5>1 DEF Members
        <5>2. CASE i \in 2 .. m BY <3>2, <3>4, <3>7, <5>2 DEF Members
        <5> QED BY <3>8, <4>2, <5>1, <5>2
      <4> QED BY <1>1, <3>4, <4>1, <4>2 DEF Members
    <3>13. PICK g : /\ g = Tsk!Down(a, 1) /\ g \in HeapsOf(m) /\ Heaped(g) /\ Members(g) = Members(a)
                    /\ IdsOnce(g)
      BY <1>1, <3>1, <3>4, <3>5, <3>11, DownHeaps
    <3>14. g \in Seq(Tasks) /\ Len(g) = m BY <1>1, <3>13, HeapIsSeq DEF HeapsOf
    <3> QED BY <3>3, <3>12, <3>13, <3>14
  <2> QED BY <2>1, <2>2
<1> QED BY <1>2, <1>3, <1>4

(* The users of a configuration file have priorities that are not negative.  *)
LEMMA UsersRead ==
  ASSUME NEW lines \in Seq(Int)
  PROVE  Tsk!Users(lines) \in Seq(Nat)
<1> DEFINE n == Len(lines)
           S == Seq(Nat)
           G == [i \in 1 .. n |-> [s \in S |-> IF lines[i] >= 0 THEN Append(s, lines[i]) ELSE s]]
           added == CHOOSE f : f = [i \in 0 .. n |->
                      IF i = 0 THEN <<>>
                      ELSE IF lines[i] >= 0 THEN Append(f[i - 1], lines[i]) ELSE f[i - 1]]
<1>1. Tsk!Users(lines) = added[n] BY DEF Tsk!Users
<1>2. n \in Nat /\ <<>> \in S /\ \A i \in 1 .. n : lines[i] \in Int OBVIOUS
<1>3. ASSUME NEW i \in 1 .. n, NEW s \in S
      PROVE  (IF lines[i] >= 0 THEN Append(s, lines[i]) ELSE s) \in S
  BY <1>2
<1>4. added = [i \in 0 .. n |->
                 IF i = 0 THEN <<>>
                 ELSE IF lines[i] >= 0 THEN Append(added[i - 1], lines[i]) ELSE added[i - 1]]
  <2> HIDE DEF S, n
  <2>1. G \in [1 .. n -> [S -> S]] BY <1>3
  <2> HIDE DEF G
  <2>2. PICK f \in [0 .. n -> S] : Loop(f, n, <<>>, G) BY <1>2, <2>1, LoopExists
  <2>3. ASSUME NEW i \in 0 .. n, i # 0
        PROVE  G[i][f[i - 1]] = IF lines[i] >= 0 THEN Append(f[i - 1], lines[i]) ELSE f[i - 1]
    <3>1. f[i - 1] \in S /\ i \in 1 .. n BY <1>2, <2>2, <2>3
    <3> QED BY <3>1 DEF G
  <2>4. f = [i \in 0 .. n |->
               IF i = 0 THEN <<>>
               ELSE IF lines[i] >= 0 THEN Append(f[i - 1], lines[i]) ELSE f[i - 1]]
    BY <2>2, <2>3, Zenon DEF Loop
  <2> QED BY <2>4, Zenon
<1> HIDE DEF added
<1> DEFINE P == {i \in 0 .. n : added[i] \in S}
<1>5. 0 \in P
  <2>1. 0 \in 0 .. n BY <1>2
  <2>2. added[0] = <<>> BY <1>4, <2>1, Zenon
  <2> QED BY <1>2, <2>1, <2>2
<1>6. ASSUME NEW i \in 0 .. n - 1, i \in P PROVE i + 1 \in P
  <2>1. i + 1 \in 0 .. n /\ i + 1 # 0 /\ (i + 1) - 1 = i /\ i + 1 \in 1 .. n BY <1>2
  <2>2. added[i] \in S BY <1>6
  <2> HIDE DEF S
  <2>3. added[i + 1] = IF lines[i + 1] >= 0 THEN Append(added[i], lines[i + 1]) ELSE added[i]
    BY <1>4, <2>1, Zenon
  <2> QED BY <1>3, <2>1, <2>2, <2>3
<1>7. \A i \in 0 .. n : i \in P
  <2> HIDE DEF P, n
  <2> QED BY <1>2, <1>5, <1>6, SetInduction
<1> QED BY <1>1, <1>2, <1>7

-----------------------------------------------------------------------------
(* The task manager between two steps. *)
TaskIds == {task.id : task \in Members(heap) \cup Members(executed)}

TskInv ==
  /\ users \in Seq(Nat) /\ heap \in Seq(Tasks) /\ executed \in Seq(Tasks)
  /\ taskId \in 0 .. MaxTasks /\ executing \in BOOLEAN
  /\ ~executing => executed = <<>>
  /\ Heaped(heap) /\ IdsOnce(heap)
  /\ TaskIds = 0 .. taskId - 1 /\ Len(heap) + Len(executed) = taskId
  /\ \A task \in Members(heap) \cup Members(executed) : task.priority \in Members(users)
  /\ \A i, j \in DOMAIN executed : i < j => Tsk!Precedes(executed[i], executed[j])
  /\ \A task \in Members(executed), waits \in Members(heap) : Tsk!Precedes(task, waits)

LEMMA TskStarts == ASSUME ConfigsRead, Tsk!Init PROVE TskInv
<1>1. users = <<>> /\ heap = <<>> /\ taskId = 0 /\ executing = FALSE /\ executed = <<>>
  BY DEF Tsk!Init
<1>2. Members(<<>>) = {} BY DEF Members
<1>3. TaskIds = {} BY <1>1, <1>2 DEF TaskIds
<1>4. <<>> \in Seq(Nat) /\ <<>> \in Seq(Tasks) /\ Len(<<>>) = 0 /\ DOMAIN <<>> = {} OBVIOUS
<1>5. Heaped(heap) /\ IdsOnce(heap) BY <1>1, <1>4 DEF Heaped, IdsOnce
<1>6. taskId \in 0 .. MaxTasks BY <1>1 DEF ConfigsRead
<1>7. TaskIds = 0 .. taskId - 1 BY <1>1, <1>3
<1>8. Members(heap) = {} /\ Members(executed) = {} /\ DOMAIN executed = {} BY <1>1, <1>2, <1>4
<1>9. Len(heap) + Len(executed) = taskId BY <1>1, <1>4
<1>10. /\ users \in Seq(Nat) /\ heap \in Seq(Tasks) /\ executed \in Seq(Tasks) /\ executing \in BOOLEAN
       /\ ~executing => executed = <<>>
  BY <1>1, <1>4
<1> QED BY <1>5, <1>6, <1>7, <1>8, <1>9, <1>10 DEF TskInv

LEMMA TskAddsUsers == ASSUME ConfigsRead, TskInv, Tsk!addUser PROVE TskInv'
<1>1. PICK lines \in Seq(Int) : users' = Tsk!Users(lines) BY DEF Tsk!addUser, ConfigsRead
<1>2. users' \in Seq(Nat) BY <1>1, UsersRead
<1>3. UNCHANGED <<heap, taskId, executing, executed>> /\ users = <<>> BY DEF Tsk!addUser
<1>4. Members(users) = {} BY <1>3 DEF Members
<1>5. Members(heap) \cup Members(executed) = {} BY <1>4 DEF TskInv
<1>6. /\ Heaped(heap)' = Heaped(heap) /\ IdsOnce(heap)' = IdsOnce(heap) /\ TaskIds' = TaskIds
      /\ Members(heap)' = Members(heap) /\ Members(executed)' = Members(executed)
  BY <1>3 DEF TaskIds, Members, Heaped, IdsOnce
<1>7. /\ users' \in Seq(Nat) /\ heap' = heap /\ executed' = executed
      /\ taskId' = taskId /\ executing' = executing
  BY <1>2, <1>3
<1>8. \A task \in Members(heap)' \cup Members(executed)' : task.priority \in Members(users)'
  BY <1>5, <1>6
<1> QED BY <1>6, <1>7, <1>8 DEF TskInv

LEMMA TskCreates == ASSUME ConfigsRead, TskInv, Tsk!createTask PROVE TskInv'
<1>1. ~executing /\ taskId < MaxTasks /\ taskId' = taskId + 1 /\ UNCHANGED <<users, executing, executed>>
  BY DEF Tsk!createTask
<1>2. PICK user \in DOMAIN users : heap' = Tsk!add(heap, [priority |-> users[user], id |-> taskId])
  BY DEF Tsk!createTask
<1> DEFINE task == [priority |-> users[user], id |-> taskId]
<1>3. /\ users \in Seq(Nat) /\ heap \in Seq(Tasks) /\ taskId \in Nat /\ MaxTasks \in Nat
      /\ executed = <<>> /\ Heaped(heap) /\ IdsOnce(heap)
  BY <1>1 DEF TskInv, ConfigsRead
<1>4. task \in Tasks /\ task.id = taskId /\ task.priority \in Members(users)
  BY <1>3 DEF Tasks, Members
<1>5. heap' = Tsk!add(heap, task) BY <1>2
<1> HIDE DEF task
<1>6. ASSUME NEW i \in DOMAIN heap PROVE heap[i].id # task.id
  <2>1. heap[i].id \in TaskIds BY DEF TaskIds, Members
  <2>2. heap[i].id \in 0 .. taskId - 1 BY <2>1 DEF TskInv
  <2> QED BY <1>3, <1>4, <2>2
<1>7. /\ heap' \in Seq(Tasks) /\ Len(heap') = Len(heap) + 1 /\ Heaped(heap') /\ IdsOnce(heap')
      /\ Members(heap') = Members(heap) \cup {task}
  BY <1>3, <1>4, <1>5, <1>6, Added
<1>8. Members(executed) = {} /\ DOMAIN executed = {} /\ executed' = executed BY <1>1, <1>3 DEF Members
<1>9. TaskIds' = 0 .. taskId' - 1
  <2>1. TaskIds' = TaskIds \cup {taskId}
    <3>1. Members(executed') = {} BY <1>8
    <3>2. TaskIds' = {x.id : x \in Members(heap') \cup Members(executed')} BY DEF TaskIds, Members
    <3>3. {x.id : x \in Members(heap) \cup {task}} = {x.id : x \in Members(heap)} \cup {taskId}
      BY <1>4
    <3> QED BY <1>7, <1>8, <3>1, <3>2, <3>3 DEF TaskIds
  <2>2. TaskIds = 0 .. taskId - 1 BY DEF TskInv
  <2>3. (0 .. taskId - 1) \cup {taskId} = 0 .. (taskId + 1) - 1 BY <1>3
  <2> QED BY <1>1, <2>1, <2>2, <2>3
<1>10. taskId' \in 0 .. MaxTasks BY <1>1, <1>3
<1>11. \A x \in Members(heap') \cup Members(executed') : x.priority \in Members(users')
  <2>1. \A x \in Members(heap) : x.priority \in Members(users) BY DEF TskInv
  <2>2. Members(users') = Members(users) BY <1>1
  <2> QED BY <1>4, <1>7, <1>8, <2>1, <2>2
<1>12. Len(heap') + Len(executed') = taskId'
  <2>1. Len(heap) + Len(executed) = taskId BY DEF TskInv
  <2> QED BY <1>1, <1>3, <1>7, <2>1
<1>13. users' \in Seq(Nat) /\ executed' \in Seq(Tasks) /\ executing' = executing BY <1>1 DEF TskInv
<1>14. /\ Heaped(heap)' = Heaped(heap') /\ IdsOnce(heap)' = IdsOnce(heap')
       /\ Members(heap)' = Members(heap') /\ Members(executed)' = Members(executed')
       /\ Members(users)' = Members(users')
  BY DEF Heaped, IdsOnce, Members
<1>15. \A x \in Members(executed') : FALSE BY <1>8
<1>16. executing' \in BOOLEAN /\ (~executing' => executed' = <<>>) BY <1>3, <1>8, <1>13 DEF TskInv
<1> QED BY <1>7, <1>8, <1>9, <1>10, <1>11, <1>12, <1>13, <1>14, <1>15, <1>16 DEF TskInv

LEMMA TskExecutes == ASSUME ConfigsRead, TskInv, Tsk!execute PROVE TskInv'
<1>1. /\ executing /\ heap # <<>> /\ executed' = Append(executed, heap[1])
      /\ heap' = Tsk!AfterPoll(heap) /\ UNCHANGED <<users, taskId, executing>>
  BY DEF Tsk!execute
<1>2. /\ heap \in Seq(Tasks) /\ executed \in Seq(Tasks) /\ Heaped(heap) /\ IdsOnce(heap)
      /\ Len(heap) + Len(executed) = taskId
  BY DEF TskInv
<1>3. /\ heap' \in Seq(Tasks) /\ Len(heap') = Len(heap) - 1 /\ Heaped(heap') /\ IdsOnce(heap')
      /\ Members(heap') = Members(heap) \ {heap[1]}
      /\ heap[1] \in Members(heap) /\ \A x \in Members(heap') : Tsk!Precedes(heap[1], x)
  BY <1>1, <1>2, Polled
<1> DEFINE n == Len(executed)
<1>4. /\ heap[1] \in Tasks
      /\ n \in Nat /\ DOMAIN executed = 1 .. n /\ DOMAIN executed' = 1 .. n + 1
      /\ executed' \in Seq(Tasks) /\ Len(executed') = n + 1
      /\ executed'[n + 1] = heap[1] /\ \A i \in 1 .. n : executed'[i] = executed[i]
  <2>1. heap[1] \in Tasks BY <1>1, <1>2
  <2> QED BY <1>1, <1>2, <2>1
<1> HIDE DEF n
<1>5. Members(executed') = Members(executed) \cup {heap[1]}
  <2>1. \A i \in 1 .. n + 1 : i = n + 1 \/ i \in 1 .. n BY <1>4
  <2>2. n + 1 \in 1 .. n + 1 /\ \A i \in 1 .. n : i \in 1 .. n + 1 BY <1>4
  <2> QED BY <1>4, <2>1, <2>2 DEF Members
<1>6. Members(heap') \cup Members(executed') = Members(heap) \cup Members(executed)
  BY <1>3, <1>5
<1>7. ASSUME NEW i \in DOMAIN executed', NEW j \in DOMAIN executed', i < j
      PROVE  Tsk!Precedes(executed'[i], executed'[j])
  <2>1. i \in 1 .. n /\ (j = n + 1 \/ j \in 1 .. n) BY <1>4, <1>7
  <2>2. CASE j = n + 1
    <3>1. executed[i] \in Members(executed) BY <1>4, <2>1 DEF Members
    <3>2. Tsk!Precedes(executed[i], heap[1]) BY <1>3, <3>1 DEF TskInv
    <3> QED BY <1>4, <2>1, <2>2, <3>2
  <2>3. CASE j \in 1 .. n BY <1>4, <1>7, <2>1, <2>3 DEF TskInv
  <2> QED BY <2>1, <2>2, <2>3
<1>8. \A x \in Members(executed'), w \in Members(heap') : Tsk!Precedes(x, w)
  BY <1>3, <1>5 DEF TskInv
<1>9. Len(heap') + Len(executed') = taskId'
  <2>1. Len(heap) \in Nat BY <1>2
  <2> QED BY <1>1, <1>2, <1>3, <1>4, <2>1 DEF n
<1>10. /\ Heaped(heap)' = Heaped(heap') /\ IdsOnce(heap)' = IdsOnce(heap')
       /\ Members(heap)' = Members(heap') /\ Members(executed)' = Members(executed')
       /\ Members(users)' = Members(users)
  BY <1>1 DEF Heaped, IdsOnce, Members
<1>11. TaskIds' = TaskIds
  <2>1. TaskIds' = {x.id : x \in Members(heap') \cup Members(executed')} BY DEF TaskIds, Members
  <2> QED BY <1>6, <2>1 DEF TaskIds
<1> QED BY <1>1, <1>3, <1>4, <1>6, <1>7, <1>8, <1>9, <1>10, <1>11 DEF TskInv

LEMMA TskSteps ==
  ASSUME [AllNext]_allvars
  PROVE  [Tsk!Next]_tasks_vars
<1>1. CASE UNCHANGED allvars BY <1>1 DEF allvars
<1>2. CASE AllNext BY <1>2 DEF AllNext, Only
<1> QED BY <1>1, <1>2

(* TaskManager: the tasks wait in a heap, each once, behind those that were  *)
(* executed, which are in order (MinHeap.java:22-87).                        *)
THEOREM TaskInvariant == ASSUME ConfigsRead PROVE AllSpec => []TskInv
<1>1. AllInit => TskInv BY TskStarts DEF AllInit
<1>2. TskInv /\ [AllNext]_allvars => TskInv'
  <2> SUFFICES ASSUME TskInv, [Tsk!Next]_tasks_vars PROVE TskInv' BY TskSteps
  <2>1. CASE UNCHANGED tasks_vars
    BY <2>1 DEF tasks_vars, TskInv, TaskIds, Members, Heaped, IdsOnce
  <2>2. CASE Tsk!addUser BY <2>2, TskAddsUsers
  <2>3. CASE Tsk!createTask BY <2>3, TskCreates
  <2>4. CASE Tsk!StartExecute
    BY <2>4 DEF Tsk!StartExecute, TskInv, TaskIds, Members, Heaped, IdsOnce
  <2>5. CASE Tsk!execute BY <2>5, TskExecutes
  <2> QED BY <2>1, <2>2, <2>3, <2>4, <2>5 DEF Tsk!Next
<1> QED BY <1>1, <1>2, PTL DEF AllSpec

(* TaskManager: for any configuration files and any number of tasks none is  *)
(* lost or executed twice, and what is executed comes before everything that *)
(* is executed after it or waits (MinHeap.java:22-87,                        *)
(* MyTaskManager.java:66-71).                                                *)
THEOREM TasksExecutedInOrder == ASSUME ConfigsRead PROVE AllSpec => []ExecutedInOrder
<1>1. TskInv => ExecutedInOrder
  <2> SUFFICES ASSUME TskInv PROVE Tsk!ExecutedInOrder BY DEF ExecutedInOrder
  <2>1. heap \in Seq(Tasks) /\ executed \in Seq(Tasks) BY DEF TskInv
  <2>2. \A s, r \in Seq(Tasks) : Tsk!ToSet(s \o r) = Members(s) \cup Members(r)
    <3> SUFFICES ASSUME NEW s \in Seq(Tasks), NEW r \in Seq(Tasks)
                 PROVE  Tsk!ToSet(s \o r) = Members(s) \cup Members(r)
      OBVIOUS
    <3>1. \A i \in 1 .. Len(s) : i \in DOMAIN (s \o r) /\ (s \o r)[i] = s[i] OBVIOUS
    <3>2. \A i \in 1 .. Len(r) : Len(s) + i \in DOMAIN (s \o r) /\ (s \o r)[Len(s) + i] = r[i]
      OBVIOUS
    <3>3. ASSUME NEW i \in DOMAIN (s \o r) PROVE (s \o r)[i] \in Members(s) \cup Members(r)
      <4>1. CASE i <= Len(s) BY <4>1 DEF Members
      <4>2. CASE i > Len(s)
        <5>1. i - Len(s) \in 1 .. Len(r) /\ (s \o r)[i] = r[i - Len(s)] BY <4>2
        <5> QED BY <5>1 DEF Members
      <4> QED BY <4>1, <4>2
    <3>4. DOMAIN s = 1 .. Len(s) /\ DOMAIN r = 1 .. Len(r) OBVIOUS
    <3>5. \A i \in 1 .. Len(r) : r[i] \in Tsk!ToSet(s \o r)
      <4> SUFFICES ASSUME NEW i \in 1 .. Len(r) PROVE r[i] \in Tsk!ToSet(s \o r) OBVIOUS
      <4>1. PICK j \in DOMAIN (s \o r) : (s \o r)[j] = r[i] BY <3>2
      <4> QED BY <4>1 DEF Tsk!ToSet
    <3>6. \A i \in 1 .. Len(s) : s[i] \in Tsk!ToSet(s \o r) BY <3>1 DEF Tsk!ToSet
    <3> QED BY <3>3, <3>4, <3>5, <3>6 DEF Tsk!ToSet, Members
  <2>3. {t.id : t \in Tsk!ToSet(heap \o executed)} = 0 .. taskId - 1
    BY <2>1, <2>2 DEF TskInv, TaskIds
  <2>4. ASSUME NEW i \in DOMAIN executed,
               NEW task \in Tsk!ToSet(SubSeq(executed, i + 1, Len(executed)) \o heap)
        PROVE  Tsk!Precedes(executed[i], task)
    <3> DEFINE later == SubSeq(executed, i + 1, Len(executed))
    <3>1. i \in 1 .. Len(executed) BY <2>1
    <3>2. /\ later \in Seq(Tasks) /\ Len(later) = Len(executed) - i
          /\ \A j \in 1 .. Len(later) : later[j] = executed[i + j]
      BY <2>1, <3>1
    <3>3. task \in Members(later) \cup Members(heap) BY <2>1, <2>2, <3>2
    <3>4. CASE task \in Members(heap)
      <4>1. executed[i] \in Members(executed) BY DEF Members
      <4> QED BY <3>4, <4>1 DEF TskInv
    <3>5. CASE task \in Members(later)
      <4>1. PICK j \in 1 .. Len(later) : task = later[j] BY <3>2, <3>5 DEF Members
      <4>2. task = executed[i + j] BY <3>2, <4>1
      <4>3. i + j \in DOMAIN executed /\ i < i + j
        <5>1. Len(executed) \in Nat /\ DOMAIN executed = 1 .. Len(executed) BY <2>1
        <5> HIDE DEF later
        <5> QED BY <3>1, <3>2, <4>1, <5>1
      <4> QED BY <4>2, <4>3 DEF TskInv
    <3> QED BY <3>3, <3>4, <3>5
  <2> QED BY <2>3, <2>4 DEF TskInv, Tsk!ExecutedInOrder
<1>2. AllSpec => []TskInv BY TaskInvariant
<1> QED BY <1>1, <1>2, PTL
===============================================================================
