-------------------------------- MODULE Ledger --------------------------------
(* What the bank promises: accounts that are opened, credited and debited    *)
(* one operation at a time, never overdrawn, and a saved copy of all of them *)
(* that a restart brings back.                                               *)
EXTENDS Integers, Sequences

CONSTANT Credits          (* amounts that may be paid in or out              *)

VARIABLES
  balances,               (* by account number, from 1                       *)
  saved                   (* the balances on disk                            *)

Init == balances = <<>> /\ saved = <<>>

Open == balances' = Append(balances, 0)

Deposit(i, amount) == balances' = [balances EXCEPT ![i] = @ + amount]

Withdraw(i, amount) ==
  /\ balances[i] >= amount
  /\ balances' = [balances EXCEPT ![i] = @ - amount]

(* An operation, which is saved at once if it comes while balances are saved. *)
Operation ==
  /\ \/ Open
     \/ \E i \in DOMAIN balances, amount \in Credits :
          Deposit(i, amount) \/ Withdraw(i, amount)
  /\ saved' \in {saved, balances'}

Save    == saved' = balances /\ UNCHANGED balances
Restart == balances' = saved /\ UNCHANGED saved

Next == Operation \/ Save \/ Restart

Spec == Init /\ [][Next]_<<balances, saved>>
=============================================================================
