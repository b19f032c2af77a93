---------------------------- MODULE WalletProofs ----------------------------
(***************************************************************************)
(* Proofs about Wallet: no wallet is overdrawn even where requests         *)
(* overwrite each other, and wallets whose requests come one at a time     *)
(* keep their ledger and implement Account, whatever the others do.        *)
(***************************************************************************)
EXTENDS Wallet, TLAPS

\* Empty wallets are sound.
LEMMA InitInv == Init => IInv
  BY WalletAssumption
  DEF Init, IInv, BaseInv, TypeOK, Job, Idle, NoOverdraft, PendingSound, Exclusive, SerialLedgerMatches

\* A session begins with the balance it reads, and asks for no more than that.
LEMMA LoadInv ==
  ASSUME IInv, NEW s \in Sessions, NEW u \in Users, NEW a \in Amounts \union {-b : b \in Amounts},
         Load(s, u, a), balance[u] + a >= 0
  PROVE  IInv'
  BY WalletAssumption
  DEF Load, IInv, BaseInv, TypeOK, Job, Idle, NoOverdraft, PendingSound, Exclusive, SerialLedgerMatches

\* Every step keeps the invariant.
LEMMA StepInv == IInv /\ [Next]_vars => IInv'
<1> SUFFICES ASSUME IInv, [Next]_vars PROVE IInv'
  OBVIOUS
<1>1. CASE UNCHANGED vars
  BY <1>1 DEF vars, IInv, BaseInv, TypeOK, NoOverdraft, PendingSound, Exclusive, SerialLedgerMatches
<1>2. ASSUME NEW s \in Sessions, NEW u \in Users, TopUpWallet(s, u) PROVE IInv'
  <2>1. PICK a \in Amounts : Load(s, u, a)
    BY <1>2 DEF TopUpWallet
  <2>2. a \in Amounts \union {-b : b \in Amounts} /\ balance[u] + a >= 0
    BY WalletAssumption DEF IInv, BaseInv, TypeOK, NoOverdraft
  <2> QED
    BY <2>1, <2>2, LoadInv
<1>3. ASSUME NEW s \in Sessions, NEW u \in Users, DeductWallet(s, u) PROVE IInv'
  <2>1. PICK a \in Amounts : balance[u] >= a /\ Load(s, u, -a)
    BY <1>3 DEF DeductWallet
  <2>2. -a \in Amounts \union {-b : b \in Amounts} /\ balance[u] + (-a) >= 0
    BY <2>1, WalletAssumption DEF IInv, BaseInv, TypeOK
  <2> QED
    BY <2>1, <2>2, LoadInv
<1>4. ASSUME NEW s \in Sessions, Commit(s) PROVE IInv'
  <2>1. job[s] \in Job
    BY <1>4 DEF Commit, IInv, BaseInv, TypeOK
  <2>2. BaseInv'
    <3>1. job[s].user \in Users /\ job[s].amount \in Int /\ job[s].seen \in Nat
      <4>1. /\ job[s].user \in Users /\ job[s].seen \in Nat
            /\ job[s].amount \in Amounts \union {-b : b \in Amounts}
        BY <2>1 DEF Job
      <4>2. \A b \in Amounts : b \in Int /\ -b \in Int
        BY WalletAssumption
      <4> QED
        BY <4>1, <4>2
    <3>2. job[s].seen + job[s].amount \in Int /\ job[s].seen + job[s].amount >= 0
      BY <3>1 DEF IInv, BaseInv, PendingSound
    <3>3. balance' \in [Users -> Int] /\ NoOverdraft'
      BY <1>4, <3>1, <3>2 DEF Commit, IInv, BaseInv, TypeOK, NoOverdraft
    <3>4. ledger' \in [Users -> Int]
      BY <1>4, <3>1 DEF Commit, IInv, BaseInv, TypeOK
    <3>5. job' \in [Sessions -> Job \union {Idle}]
      BY <1>4 DEF Commit, IInv, BaseInv, TypeOK
    <3>6. PendingSound'
      BY <1>4 DEF Commit, IInv, BaseInv, TypeOK, PendingSound, Idle
    <3> QED
      BY <3>3, <3>4, <3>5, <3>6 DEF BaseInv, TypeOK
  <2>3. /\ job[s].user \in Users /\ job[s].amount \in Int /\ Idle.user \notin Serial
        /\ \A t \in Sessions : job'[t] = IF t = s THEN Idle ELSE job[t]
    <3>1. job[s].user \in Users /\ job[s].amount \in Amounts \union {-b : b \in Amounts}
      BY <2>1 DEF Job
    <3>2. \A b \in Amounts : b \in Int /\ -b \in Int
      BY WalletAssumption
    <3>3. \A t \in Sessions : job'[t] = IF t = s THEN Idle ELSE job[t]
      BY <1>4 DEF Commit, IInv, BaseInv, TypeOK
    <3>4. Idle.user \notin Serial
      BY WalletAssumption DEF Idle
    <3> QED
      BY <3>1, <3>2, <3>3, <3>4
  <2>4. Exclusive'
    <3> SUFFICES ASSUME NEW t \in Sessions, job'[t].user \in Serial
                 PROVE  /\ \A w \in Sessions : job'[t].user = job'[w].user => t = w
                        /\ job'[t].seen = balance'[job'[t].user]
      BY DEF Exclusive
    <3>1. t # s /\ job'[t] = job[t] /\ job[t].user # job[s].user
      BY <2>3 DEF IInv, Exclusive
    <3>2. balance'[job[t].user] = balance[job[t].user]
      BY <1>4, <2>3, <3>1, WalletAssumption DEF Commit, IInv, BaseInv, TypeOK
    <3> QED
      BY <2>3, <3>1, <3>2 DEF IInv, Exclusive
  <2>5. SerialLedgerMatches'
    <3> SUFFICES ASSUME NEW u \in Serial PROVE ledger'[u] = balance'[u]
      BY DEF SerialLedgerMatches
    <3>1. u \in Users /\ ledger[u] = balance[u] /\ balance[u] \in Int
      BY WalletAssumption DEF IInv, BaseInv, TypeOK, SerialLedgerMatches
    <3>2. CASE u # job[s].user
      BY <1>4, <2>3, <3>1, <3>2 DEF Commit, IInv, BaseInv, TypeOK
    <3>3. CASE u = job[s].user
      <4>1. job[s].seen = balance[u]
        BY <3>3 DEF IInv, Exclusive
      <4>2. ledger'[u] = balance[u] + job[s].amount
        BY <1>4, <3>1, <3>3 DEF Commit, IInv, BaseInv, TypeOK
      <4>3. balance'[u] = balance[u] + job[s].amount
        BY <1>4, <2>3, <3>1, <3>3, <4>1 DEF Commit, IInv, BaseInv, TypeOK
      <4> QED
        BY <4>2, <4>3
    <3> QED
      BY <3>2, <3>3
  <2> QED
    BY <2>2, <2>4, <2>5 DEF IInv
<1>5. ASSUME NEW s \in Sessions, Rollback(s) PROVE IInv'
  <2>1. BaseInv'
    BY <1>5 DEF Rollback, IInv, BaseInv, TypeOK, Idle, NoOverdraft, PendingSound
  <2>2. Exclusive'
    <3>1. \A t \in Sessions : job'[t] = IF t = s THEN Idle ELSE job[t]
      BY <1>5 DEF Rollback, IInv, BaseInv, TypeOK
    <3>2. Idle.user \notin Serial
      BY WalletAssumption DEF Idle
    <3> QED
      BY <1>5, <3>1, <3>2 DEF Rollback, IInv, Exclusive
  <2>3. SerialLedgerMatches'
    BY <1>5 DEF Rollback, IInv, SerialLedgerMatches
  <2> QED
    BY <2>1, <2>2, <2>3 DEF IInv
<1> QED
  BY <1>1, <1>2, <1>3, <1>4, <1>5 DEF Next

\* The inductive invariant of the wallets.
THEOREM InvariantHolds == Spec => []IInv
  BY InitInv, StepInv, PTL DEF Spec

\* No interleaving of top-ups and deductions overdraws a wallet.
THEOREM NeverOverdrawn == Spec => []NoOverdraft
<1>1. IInv => NoOverdraft
  BY DEF IInv, BaseInv
<1> QED
  BY <1>1, InvariantHolds, PTL

\* The transactions of a user whose requests do not overlap add up to the
\* balance.
THEOREM LedgerKept == Spec => []SerialLedgerMatches
<1>1. IInv => SerialLedgerMatches
  BY DEF IInv
<1> QED
  BY <1>1, InvariantHolds, PTL

\* For those users top_up_wallet and deduct_wallet implement deposits and
\* covered withdrawals.
THEOREM WalletIsAccount == Spec => ImplementsAccount
<1> DEFINE money == [u \in Serial |-> balance[u]]
<1>1. Init => Abstract!Init
  BY WalletAssumption DEF Init, Abstract!Init
<1>2. IInv /\ [Next]_vars => [Abstract!Next]_money
  <2> SUFFICES ASSUME IInv, [Next]_vars, money' # money PROVE Abstract!Next
    OBVIOUS
  <2>1. PICK s \in Sessions : Commit(s)
    BY DEF Next, vars, TopUpWallet, DeductWallet, Load, Rollback
  <2> DEFINE u == job[s].user
             a == job[s].amount
  <2>2. /\ job[s] \in Job /\ balance \in [Users -> Int]
        /\ a \in Amounts \union {-b : b \in Amounts}
        /\ a # 0 /\ balance' = [balance EXCEPT ![u] = job[s].seen + a]
    BY <2>1 DEF Commit, IInv, BaseInv, TypeOK, Job
  <2>3. u \in Serial
    BY <2>2, WalletAssumption
  <2>4. /\ money[u] \in Int /\ money[u] + a >= 0
        /\ money' = [money EXCEPT ![u] = money[u] + a]
    <3>1. job[s].seen = balance[u] /\ job[s].seen + a >= 0 /\ balance[u] \in Int
      BY <2>2, <2>3, WalletAssumption DEF IInv, BaseInv, PendingSound, Exclusive, Job
    <3> QED
      BY <2>2, <2>3, <3>1, WalletAssumption
  <2>5. CASE a \in Amounts
    BY <2>3, <2>4, <2>5 DEF Abstract!Next, Abstract!Deposit
  <2>6. CASE \E b \in Amounts : a = -b
    <3>1. PICK b \in Amounts : a = -b
      BY <2>6
    <3>2. b \in Nat /\ money[u] >= b /\ money[u] + a = money[u] - b
      BY <2>4, <3>1, WalletAssumption
    <3>3. Abstract!Withdraw(u, b)
      BY <2>4, <3>2 DEF Abstract!Withdraw
    <3> QED
      BY <2>3, <3>3 DEF Abstract!Next
  <2> QED
    BY <2>2, <2>5, <2>6
<1> QED
  BY <1>1, <1>2, InvariantHolds, PTL DEF Spec, ImplementsAccount, Abstract!Spec
=============================================================================
