------------------------------- MODULE Wallet -------------------------------
(***************************************************************************)
(* Wallets: the wallet_balance column of users and the transactions table. *)
(*                                                                         *)
(* top_up_wallet and deduct_wallet load the user, compute the new balance  *)
(* in Python and write it as a value, with a transaction row, in the       *)
(* commit at the end of the request.  The database runs at READ COMMITTED  *)
(* and neither locks nor versions the row, so whatever another request     *)
(* commits between the load and the commit is overwritten.  Amounts are    *)
(* whole cents here; the columns are floating-point numbers.               *)
(***************************************************************************)
EXTENDS Integers

CONSTANTS
    Users,
    Sessions,    \* requests that can be in progress at once
    Amounts,     \* cents; the amount is checked before it is rounded, so it may be 0
    Bound,       \* bound on balances and sums of transactions, on either side
    Serial,      \* users whose requests come one at a time
    Nil

ASSUME WalletAssumption ==
    /\ Amounts \subseteq Nat
    /\ Bound \in Nat
    /\ Serial \subseteq Users
    /\ Nil \notin Users

VARIABLES
    balance, \* users.wallet_balance, committed
    ledger,  \* the sum of the amounts of each user's transactions
    job      \* what each session is about to commit

vars == <<balance, ledger, job>>

\* A session that has computed a balance from the one it saw.
Job == [user: Users, seen: Nat, amount: Amounts \union {-a : a \in Amounts}]
Idle == [user |-> Nil, seen |-> 0, amount |-> 0]

TypeOK ==
    /\ balance \in [Users -> Int]
    /\ ledger \in [Users -> Int]
    /\ job \in [Sessions -> Job \union {Idle}]

Init ==
    /\ balance = [u \in Users |-> 0]
    /\ ledger = [u \in Users |-> 0]
    /\ job = [s \in Sessions |-> Idle]

\* _get_user: the session has the wallet to itself, or it does not.
Load(s, u, amount) ==
    /\ job[s] = Idle
    /\ balance[u] + amount <= Bound
    /\ ledger[u] + amount \in -Bound..Bound
    /\ u \in Serial => \A t \in Sessions : job[t].user # u
    /\ job' = [job EXCEPT ![s] = [user |-> u, seen |-> balance[u], amount |-> amount]]
    /\ UNCHANGED <<balance, ledger>>

TopUpWallet(s, u) == \E a \in Amounts : Load(s, u, a)

\* Mutated form: the balance is compared after the amount has been taken off.
DeductWalletLate(s, u) == \E a \in Amounts : balance[u] > 0 /\ Load(s, u, -a)

\* InsufficientBalanceError ends the request with nothing written.
DeductWallet(s, u) == \E a \in Amounts : balance[u] >= a /\ Load(s, u, -a)

\* Mutated form: the balance commits and the transaction row is forgotten for a
\* deduction.
CommitNoDeductionRow(s) ==
    LET j == job[s] IN
    /\ j # Idle
    /\ balance' = IF j.amount # 0 THEN [balance EXCEPT ![j.user] = j.seen + j.amount] ELSE balance
    /\ ledger' = IF j.amount > 0 THEN [ledger EXCEPT ![j.user] = @ + j.amount] ELSE ledger
    /\ job' = [job EXCEPT ![s] = Idle]

\* The flush and the commit: the column is written if its value has changed in
\* the session, the transaction row always.
Commit(s) ==
    LET j == job[s] IN
    /\ j # Idle
    /\ balance' = IF j.amount # 0 THEN [balance EXCEPT ![j.user] = j.seen + j.amount] ELSE balance
    /\ ledger' = [ledger EXCEPT ![j.user] = @ + j.amount]
    /\ job' = [job EXCEPT ![s] = Idle]

\* Any failure before the commit rolls everything back.
Rollback(s) ==
    /\ job[s] # Idle
    /\ job' = [job EXCEPT ![s] = Idle]
    /\ UNCHANGED <<balance, ledger>>

Next ==
    \E s \in Sessions :
        \/ \E u \in Users : TopUpWallet(s, u) \/ DeductWallet(s, u)
        \/ Commit(s)
        \/ Rollback(s)

Spec == Init /\ [][Next]_vars

-----------------------------------------------------------------------------
(* Properties *)

\* Whatever requests overlap and overwrite each other, no wallet is overdrawn.
NoOverdraft == \A u \in Users : balance[u] >= 0

\* Transaction's docstring: "Provides an audit trail for all wallet balance
\* changes.": the transactions of a user add up to the balance.
LedgerMatches == \A u \in Users : ledger[u] = balance[u]

\* That holds of the users whose requests come one at a time, whatever fails
\* and whatever the others do.
SerialLedgerMatches == \A u \in Serial : ledger[u] = balance[u]

Abstract == INSTANCE Account WITH
    Users <- Serial, money <- [u \in Serial |-> balance[u]]

\* Their wallets are the accounts they stand for: every commit is one deposit
\* or one covered withdrawal.
ImplementsAccount == Abstract!Spec

-----------------------------------------------------------------------------
(* The inductive invariant *)

\* What a session is about to write is not negative, whatever it has missed.
PendingSound == \A s \in Sessions : job[s].seen + job[s].amount >= 0

BaseInv == TypeOK /\ NoOverdraft /\ PendingSound

\* A session of a serial user has the wallet to itself and has missed nothing.
Exclusive ==
    \A s \in Sessions :
        job[s].user \in Serial =>
            /\ \A t \in Sessions : job[s].user = job[t].user => s = t
            /\ job[s].seen = balance[job[s].user]

IInv == BaseInv /\ Exclusive /\ SerialLedgerMatches
=============================================================================
