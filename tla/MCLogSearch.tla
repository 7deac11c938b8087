----------------------------- MODULE MCLogSearch -----------------------------
(* Model checking of LogSearch.  Line i holds the term 2^(i-1) times, so any *)
(* line that is lost or counted twice shows in the sums.                     *)
EXTENDS LogSearch

PowersOfTwo == [i \in 1 .. NumLines |-> 2 ^ (i - 1)]

EveryThread == Threads
OnlyMain    == {Main}
=============================================================================
