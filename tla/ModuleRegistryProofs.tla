------------------------ MODULE ModuleRegistryProofs ------------------------
(***************************************************************************)
(* Proofs about ModuleRegistry: what makes the enabled key stale, and what *)
(* changes the enabled column.  At the end, what PaymenterWebhookProofs    *)
(* proves of the webhook is carried over to the composition of both.       *)
(***************************************************************************)
EXTENDS MCModuleRegistry, TLAPS

\* The theorems about the webhook, for the variables the composition gives it.
Proved == INSTANCE PaymenterWebhookProofs WITH Requests <- Deliveries, job <- delivery

\* A registry without a row, with nothing cached.
LEMMA InitInv == Init => IInv
<1> SUFFICES ASSUME Init PROVE IInv
  OBVIOUS
<1>1. TypeOK
  BY RegistryAssumption DEF Init, TypeOK, Idle, Keys
<1>2. \A s \in Sessions : job[s].at = "idle"
  BY DEF Init, Idle
<1>3. \A k \in Keys : cache[k] = Nil
  BY DEF Init
<1>4. RowStays /\ RefillsFresh
  BY <1>2, <1>3 DEF RowStays, RefillsFresh, Sessions
<1>5. StaleOnlyInToggle
  BY <1>3 DEF StaleOnlyInToggle, Fresh, Keys
<1> QED
  BY <1>1, <1>4, <1>5 DEF IInv

\* The job a session takes up leaves those of the others alone.
LEMMA Becomes ==
  ASSUME TypeOK, NEW s \in Sessions, NEW j, Become(s, j)
  PROVE  /\ job'[s] = j
         /\ \A t \in Sessions \ {s} : job'[t] = job[t]
         /\ DOMAIN job' = Sessions
  BY DEF TypeOK, Become

\* A toggle changes a row that is there.
LEMMA CommitMakesRow ==
  ASSUME TypeOK, RowStays, NEW a \in Admins, CommitToggle(a)
  PROVE  row' \in Row
<1>1. job[a] \in [at: {"commit"}, wish: Wishes, seen: Row]
  BY DEF CommitToggle, TypeOK, Idle, Sessions
<1>2. job[a].wish["enabled"] \in BOOLEAN \union {Nil}
  BY <1>1 DEF Wishes, FlagNames
<1>3. row \in Row
  BY DEF CommitToggle, TypeOK, RowStays, Sessions
<1> QED
  BY <1>2, <1>3 DEF CommitToggle, Row

\* A registration leaves a row.
LEMMA RegisterMakesRow ==
  ASSUME TypeOK, NEW w \in Workers, Register(w)
  PROVE  row' \in Row
<1>1. job[w] \in [at: {"register"}, flags: Defaults, seen: Row \union {Nil}]
  BY DEF Register, TypeOK, Idle, Sessions
<1>2. job[w].flags \in Flags /\ job[w].flags["enabled"] \in BOOLEAN
  BY <1>1, RegistryAssumption DEF Flags, FlagNames
<1>3. row = Nil \/ row \in Row
  BY DEF TypeOK
<1> QED
  BY <1>2, <1>3 DEF Register, Row

\* Every step keeps the types.
LEMMA StepType == TypeOK /\ RowStays /\ [Next]_vars => TypeOK'
<1> SUFFICES ASSUME TypeOK, RowStays, [Next]_vars PROVE TypeOK'
  OBVIOUS
<1> USE RegistryAssumption
<1>1. CASE UNCHANGED vars
  BY <1>1 DEF vars, TypeOK
<1>2. ASSUME NEW r \in Requests, NEW k \in Keys, Read(r, k) PROVE TypeOK'
  BY <1>2 DEF Read, Become, Stored, TypeOK, Row, Keys, IsIdle, Sessions
<1>3. ASSUME NEW r \in Requests, Refill(r) PROVE TypeOK'
  <2>1. job' = [job EXCEPT ![r] = Idle] /\ row' = row /\ calm' = calm
    BY <1>3 DEF Refill, Become
  <2>2. CASE RedisFails
    BY <2>1, <2>2 DEF RedisFails, TypeOK
  <2>3. CASE cache' = [cache EXCEPT ![job[r].key] = job[r].value] /\ UNCHANGED disturbed
    BY <1>3, <2>1, <2>3 DEF Refill, TypeOK, Keys, Idle, Sessions
  <2> QED
    BY <1>3, <2>2, <2>3 DEF Refill
<1>4. ASSUME NEW k \in Keys, Expire(k) PROVE TypeOK'
  BY <1>4 DEF Expire, TypeOK, Keys
<1>5. ASSUME NEW a \in Admins, NEW wish \in Wishes, LoadForToggle(a, wish) PROVE TypeOK'
  BY <1>5 DEF LoadForToggle, Become, TypeOK, Sessions
<1>6. ASSUME NEW a \in Admins, CommitToggle(a) PROVE TypeOK'
  <2>1. row' \in Row
    BY <1>6, CommitMakesRow
  <2>2. job' = [job EXCEPT ![a] = [at |-> "invalidate"]]
    BY <1>6 DEF CommitToggle, Become
  <2> QED
    BY <1>6, <2>1, <2>2 DEF CommitToggle, TypeOK, Sessions
<1>7. ASSUME NEW a \in Admins, Invalidate(a) PROVE TypeOK'
  <2>1. job' = [job EXCEPT ![a] = Idle] /\ row' = row /\ calm' = calm
    BY <1>7 DEF Invalidate, Become
  <2>2. CASE RedisFails
    BY <2>1, <2>2 DEF RedisFails, TypeOK
  <2>3. CASE cache' = [k \in Keys |-> Nil] /\ UNCHANGED disturbed
    BY <2>1, <2>3 DEF TypeOK, Keys, Idle
  <2> QED
    BY <1>7, <2>2, <2>3 DEF Invalidate
<1>8. ASSUME NEW w \in Workers, NEW d \in Defaults, LoadForRegister(w, d) PROVE TypeOK'
  BY <1>8 DEF LoadForRegister, Become, TypeOK, Sessions
<1>9. ASSUME NEW w \in Workers, Register(w) PROVE TypeOK'
  <2>1. row' \in Row
    BY <1>9, RegisterMakesRow
  <2> QED
    BY <1>9, <2>1 DEF Register, Become, TypeOK, Idle, Sessions
<1>10. ASSUME NEW s \in Sessions, Crash(s) PROVE TypeOK'
  BY <1>10 DEF Crash, Become, TypeOK, Idle
<1>11. ASSUME CalmDown PROVE TypeOK'
  BY <1>11 DEF CalmDown, TypeOK
<1> QED
  BY <1>1, <1>2, <1>3, <1>4, <1>5, <1>6, <1>7, <1>8, <1>9, <1>10, <1>11 DEF Next

\* Every step keeps the row there for those who have read it.
LEMMA StepRowStays == TypeOK /\ RowStays /\ [Next]_vars => RowStays'
<1> SUFFICES ASSUME TypeOK, RowStays, [Next]_vars, row' = Nil PROVE RowStays'
  BY DEF RowStays
<1> USE RegistryAssumption
<1>0. Nil \notin Row
  OBVIOUS
<1>1. row = Nil
  <2>1. ASSUME NEW a \in Admins, CommitToggle(a) PROVE FALSE
    BY <1>0, <2>1, CommitMakesRow
  <2>2. ASSUME NEW w \in Workers, Register(w) PROVE FALSE
    BY <1>0, <2>2, RegisterMakesRow
  <2> QED
    BY <2>1, <2>2 DEF Next, vars, Read, Refill, Expire, LoadForToggle, Invalidate,
       LoadForRegister, Crash, CalmDown
<1>2. /\ \A k \in Keys : cache[k] = Nil
      /\ \A s \in Sessions : job[s].at \in {"idle", "register"}
  BY <1>1 DEF RowStays
<1>3. CASE UNCHANGED vars
  BY <1>2, <1>3 DEF vars, RowStays
<1>4. CASE CalmDown
  BY <1>2, <1>4 DEF CalmDown, RowStays
<1>5. ASSUME NEW w \in Workers, NEW d \in Defaults, LoadForRegister(w, d) PROVE RowStays'
  BY <1>2, <1>5, Becomes DEF LoadForRegister, RowStays, Sessions
<1>6. ASSUME NEW s \in Sessions, Crash(s) PROVE RowStays'
  BY <1>2, <1>6, Becomes DEF Crash, RowStays, Idle
<1>7. ASSUME NEW w \in Workers, Register(w) PROVE FALSE
  BY <1>0, <1>7, RegisterMakesRow
<1> QED
  BY <1>1, <1>2, <1>3, <1>4, <1>5, <1>6, <1>7
  DEF Next, Read, Refill, Expire, LoadForToggle, CommitToggle, Invalidate, Sessions

\* A registration leaves the enabled column of an existing row alone.
LEMMA RegisterKeepsEnabled ==
  ASSUME TypeOK, NEW w \in Workers, Register(w), row # Nil
  PROVE  row'.enabled = row.enabled /\ row' # Nil
<1>1. row \in Row
  BY DEF TypeOK
<1>2. row' \in Row
  BY RegisterMakesRow
<1> QED
  BY <1>1, <1>2, RegistryAssumption DEF Register, Row

\* As long as nothing has disturbed it, every step keeps the enabled key fresh but for the moment
\* between the commit of a toggle and its deletion of the keys.
LEMMA StepFresh ==
  ASSUME IInv, [Next]_vars, ~disturbed'
  PROVE  RefillsFresh' /\ StaleOnlyInToggle'
<1> DEFINE e == "module:enabled"
<1> USE DEF IInv
<1>d. ~disturbed
  BY DEF Next, vars, Read, Refill, Expire, LoadForToggle, CommitToggle, Invalidate,
     LoadForRegister, Register, Crash, CalmDown, RedisFails
<1>0. /\ e \in Keys /\ Stored(e) = row.enabled /\ Stored(e)' = row'.enabled
      /\ \A r \in Requests : r \in Sessions /\ r \notin Admins /\ r \notin Workers
      /\ \A a \in Admins : a \in Sessions /\ a \notin Requests /\ a \notin Workers
      /\ \A w \in Workers : w \in Sessions /\ w \notin Requests /\ w \notin Admins
  BY RegistryAssumption DEF Keys, Stored, Sessions
<1>a. \A r \in Requests :
         job[r].at = "refill" /\ job[r].key = e => job[r].value = row.enabled
  BY <1>d DEF RefillsFresh
<1>b. ~Fresh(e) => \E a \in Admins : job[a].at = "invalidate"
  BY <1>d DEF StaleOnlyInToggle
<1> SUFFICES /\ \A r \in Requests :
                    job'[r].at = "refill" /\ job'[r].key = e => job'[r].value = row'.enabled
             /\ Fresh(e)' \/ \E a \in Admins : job'[a].at = "invalidate"
  BY DEF RefillsFresh, StaleOnlyInToggle
<1> DEFINE Goal ==
      /\ \A r \in Requests :
            job'[r].at = "refill" /\ job'[r].key = e => job'[r].value = row'.enabled
      /\ Fresh(e)' \/ \E a \in Admins : job'[a].at = "invalidate"
<1>1. CASE UNCHANGED vars
  BY <1>1, <1>a, <1>b DEF vars, Fresh, Stored
<1>2. ASSUME NEW r \in Requests, NEW k \in Keys, Read(r, k) PROVE Goal
  <2>1. /\ job'[r] = [at |-> "refill", key |-> k, value |-> Stored(k)]
        /\ \A t \in Sessions \ {r} : job'[t] = job[t]
        /\ row' = row /\ cache' = cache
    BY <1>0, <1>2, Becomes DEF Read
  <2> QED
    BY <1>0, <1>a, <1>b, <2>1 DEF Fresh, Stored
<1>3. ASSUME NEW r \in Requests, Refill(r) PROVE Goal
  <2>1. /\ job'[r] = Idle
        /\ \A t \in Sessions \ {r} : job'[t] = job[t]
        /\ row' = row
        /\ cache' = [cache EXCEPT ![job[r].key] = job[r].value]
        /\ job[r].at = "refill"
    BY <1>0, <1>3, Becomes DEF Refill, RedisFails
  <2>2. row # Nil
    BY <1>0, <2>1 DEF RowStays
  <2>3. Fresh(e)' \/ (cache'[e] = cache[e] /\ job[r].key # e)
    BY <1>0, <1>a, <2>1, <2>2 DEF Fresh, TypeOK, Stored
  <2> QED
    BY <1>0, <1>a, <1>b, <2>1, <2>3 DEF Fresh, Idle, Stored
<1>4. ASSUME NEW k \in Keys, Expire(k) PROVE Goal
  <2>1. job' = job /\ row' = row /\ (cache'[e] = cache[e] \/ cache'[e] = Nil)
    BY <1>0, <1>4 DEF Expire, TypeOK
  <2> QED
    BY <1>a, <1>b, <2>1 DEF Fresh, Stored
<1>5. ASSUME NEW a \in Admins, NEW wish \in Wishes, LoadForToggle(a, wish) PROVE Goal
  <2>1. /\ job[a] = Idle
        /\ job'[a].at = "commit"
        /\ \A t \in Sessions \ {a} : job'[t] = job[t]
        /\ row' = row /\ cache' = cache
    BY <1>0, <1>5, Becomes DEF LoadForToggle, IsIdle
  <2> QED
    BY <1>0, <1>a, <1>b, <2>1 DEF Fresh, Idle, Stored
<1>6. ASSUME NEW a \in Admins, CommitToggle(a) PROVE Goal
  <2>1. /\ job'[a].at = "invalidate"
        /\ \A t \in Sessions \ {a} : job'[t] = job[t]
        /\ \A r \in Requests : job[r] = Idle
    <3>1. disturbed' = (disturbed \/ \E r \in Requests : ~IsIdle(r))
      BY <1>6 DEF CommitToggle
    <3>2. \A r \in Requests : job[r] = Idle
      BY <3>1 DEF IsIdle
    <3> QED
      BY <1>0, <1>6, <3>2, Becomes DEF CommitToggle
  <2> QED
    BY <1>0, <2>1 DEF Idle
<1>7. ASSUME NEW a \in Admins, Invalidate(a) PROVE Goal
  <2>1. /\ cache'[e] = Nil /\ row' = row
        /\ \A t \in Sessions \ {a} : job'[t] = job[t]
    BY <1>0, <1>7, Becomes DEF Invalidate, RedisFails
  <2> QED
    BY <1>0, <1>a, <2>1 DEF Fresh
<1>8. ASSUME NEW w \in Workers, NEW d \in Defaults, LoadForRegister(w, d) PROVE Goal
  <2>1. /\ row' = row /\ cache' = cache
        /\ \A t \in Sessions \ {w} : job'[t] = job[t]
    BY <1>0, <1>8, Becomes DEF LoadForRegister
  <2> QED
    BY <1>0, <1>a, <1>b, <2>1 DEF Fresh, Stored
<1>9. ASSUME NEW w \in Workers, Register(w) PROVE Goal
  <2>1. cache' = cache /\ \A t \in Sessions \ {w} : job'[t] = job[t]
    BY <1>0, <1>9, Becomes DEF Register
  <2>2. CASE row = Nil
    BY <1>0, <2>1, <2>2 DEF RowStays, Fresh
  <2>3. CASE row # Nil
    <3>1. row'.enabled = row.enabled /\ row' # Nil
      BY <1>9, <2>3, RegisterKeepsEnabled
    <3> QED
      BY <1>0, <1>a, <1>b, <2>1, <2>3, <3>1 DEF Fresh, Stored
  <2> QED
    BY <2>2, <2>3
<1>10. ASSUME NEW s \in Sessions, Crash(s) PROVE Goal
  BY <1>10 DEF Crash
<1>11. ASSUME CalmDown PROVE Goal
  BY <1>a, <1>b, <1>11 DEF CalmDown, Fresh, Stored
<1> QED
  BY <1>1, <1>2, <1>3, <1>4, <1>5, <1>6, <1>7, <1>8, <1>9, <1>10, <1>11 DEF Next

\* The inductive invariant of the registry.
THEOREM InvariantHolds == Spec => []IInv
<1>1. IInv /\ [Next]_vars => IInv'
  <2> SUFFICES ASSUME IInv, [Next]_vars PROVE IInv'
    OBVIOUS
  <2>1. TypeOK' /\ RowStays'
    BY StepType, StepRowStays DEF IInv
  <2>2. CASE ~disturbed'
    BY <2>1, <2>2, StepFresh DEF IInv
  <2>3. CASE disturbed'
    BY <2>1, <2>3 DEF IInv, RefillsFresh, StaleOnlyInToggle
  <2> QED
    BY <2>2, <2>3
<1> QED
  BY <1>1, InitInv, PTL DEF Spec

\* Overtaken refills, errors of Redis and crashes are the only causes of an
\* enabled key that outlives a toggle.
THEOREM KeyStaleOnlyInToggle == Spec => []StaleOnlyInToggle
<1>1. IInv => StaleOnlyInToggle
  BY DEF IInv
<1> QED
  BY <1>1, InvariantHolds, PTL

\* A restarting worker leaves the enabled column as the administrators set it.
THEOREM RestartsKeepEnabled == Spec => RestartKeepsEnabled
<1>1. IInv /\ [Next]_vars
      => [row # Nil /\ row'.enabled # row.enabled
            => \E a \in Admins :
                 job[a].at = "commit" /\ job[a].wish["enabled"] = row'.enabled]_vars
  <2> SUFFICES ASSUME IInv, [Next]_vars, row # Nil, row'.enabled # row.enabled
               PROVE  \E a \in Admins :
                        job[a].at = "commit" /\ job[a].wish["enabled"] = row'.enabled
    OBVIOUS
  <2>1. ASSUME NEW w \in Workers, Register(w) PROVE FALSE
    BY <2>1, RegisterKeepsEnabled DEF IInv
  <2>2. PICK a \in Admins : CommitToggle(a)
    BY <2>1 DEF Next, vars, Read, Refill, Expire, LoadForToggle, Invalidate,
       LoadForRegister, Crash, CalmDown
  <2>3. row \in Row
    BY DEF IInv, TypeOK
  <2> QED
    BY <2>2, <2>3 DEF CommitToggle, Row
<1> QED
  BY <1>1, InvariantHolds, PTL DEF Spec, RestartKeepsEnabled

-----------------------------------------------------------------------------
(* The composition with the webhook *)

LEMMA SameAssumption == Proved!WebhookAssumption
BY HookAssumption DEF Webhook!WebhookAssumption, Proved!WebhookAssumption

LEMMA SameInit == Webhook!Init <=> Proved!Init
BY DEF Webhook!Init, Webhook!Idle, Proved!Init, Proved!Idle

LEMMA SameNext == Webhook!Next <=> Proved!Next
BY DEF Webhook!Next, Webhook!Deliver, Webhook!HandleWebhookEvent, Webhook!CheckIdempotency,
       Webhook!StoreEvent, Webhook!Process, Webhook!MarkProcessed, Webhook!Crash,
       Webhook!LoseAnswer, Webhook!Answer, Webhook!At, Webhook!Goto, Webhook!End, Webhook!Idle,
       Proved!Next, Proved!Deliver, Proved!HandleWebhookEvent, Proved!CheckIdempotency,
       Proved!StoreEvent, Proved!Process, Proved!MarkProcessed, Proved!Crash,
       Proved!LoseAnswer, Proved!Answer, Proved!At, Proved!Goto, Proved!End, Proved!Idle

\* Whatever moves, the webhook keeps its invariant.
LEMMA WebhookKeeps ==
    Proved!IInv /\ [MCNext]_<<part, vars, hookVars>> => Proved!IInv'
<1>1. [MCNext]_<<part, vars, hookVars>> => [Proved!Next]_(Proved!vars)
  <2>1. UNCHANGED hookVars => UNCHANGED Proved!vars
    BY DEF hookVars, Proved!vars
  <2> QED
    BY <2>1, SameNext DEF MCNext
<1>2. Proved!IInv /\ [Proved!Next]_(Proved!vars) => Proved!IInv'
  BY SameAssumption, Proved!StepInv
<1> QED
  BY <1>1, <1>2

\* The inductive invariant of the webhook holds of the composition.
THEOREM WebhookInvariant == MCSpec => []Proved!IInv
<1>1. MCInit => Proved!IInv
  BY SameInit, SameAssumption, Proved!InitInv DEF MCInit
<1> QED
  BY <1>1, WebhookKeeps, PTL DEF MCSpec

\* handle_webhook_event processes an event at most once, beside the registry too.
THEOREM EventsOnce == MCSpec => []AtMostOnce
<1>1. Proved!IInv => AtMostOnce
  BY DEF Proved!IInv, Proved!AtMostOnce, AtMostOnce, Webhook!AtMostOnce
<1> QED
  BY <1>1, WebhookInvariant, PTL

\* Paymenter is told "processed" or "duplicate" only of a processed event.
THEOREM RepliesTrue == MCSpec => []AnswersAreTrue
<1>1. Proved!IInv => AnswersAreTrue
  BY DEF Proved!IInv, Proved!AnswersAreTrue, AnswersAreTrue, Webhook!AnswersAreTrue
<1> QED
  BY <1>1, WebhookInvariant, PTL
=============================================================================
