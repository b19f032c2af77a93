------------------------------ MODULE Account ------------------------------
(***************************************************************************)
(* What a wallet promises, with sessions and transactions left out: money  *)
(* is put in and taken out in one step, and never more than there is.      *)
(***************************************************************************)
EXTENDS Integers

CONSTANTS Users, Amounts

VARIABLE money

Init == money = [u \in Users |-> 0]

Deposit(u, a) == money' = [money EXCEPT ![u] = @ + a]

Withdraw(u, a) == money[u] >= a /\ money' = [money EXCEPT ![u] = @ - a]

Next == \E u \in Users, a \in Amounts : Deposit(u, a) \/ Withdraw(u, a)

Spec == Init /\ [][Next]_money
=============================================================================
