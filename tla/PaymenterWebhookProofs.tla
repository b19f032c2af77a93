----------------------- MODULE PaymenterWebhookProofs -----------------------
(***************************************************************************)
(* Proofs about PaymenterWebhook: for any number of events, of deliveries  *)
(* in progress and of failures, an event is processed at most once and the *)
(* answers Paymenter gets are true.                                        *)
(***************************************************************************)
EXTENDS PaymenterWebhook, TLAPS

\* Nothing is stored, processed or answered at the start.
LEMMA InitInv == ASSUME WebhookAssumption PROVE Init => IInv
  BY DEF WebhookAssumption, Init, IInv, TypeOK, Row, Reply, Busy, OneOwner, RowsHonest, AtMostOnce,
      AnswersAreTrue, At, Idle

\* One step of one delivery: only that delivery and its event change.
LEMMA StepInv == ASSUME WebhookAssumption PROVE IInv /\ [Next]_vars => IInv'
<1> SUFFICES ASSUME IInv, [Next]_vars PROVE IInv'
  OBVIOUS
<1> USE DEF WebhookAssumption
<1>1. CASE UNCHANGED vars
  BY <1>1 DEF vars, IInv, TypeOK, Busy, OneOwner, RowsHonest, AtMostOnce, AnswersAreTrue, At
<1>2. ASSUME NEW r \in Requests, NEW e \in Events, Deliver(r, e) PROVE IInv'
  BY <1>2 DEF Deliver, IInv, TypeOK, Busy, OneOwner, RowsHonest, AtMostOnce, AnswersAreTrue, At
<1>3. ASSUME NEW r \in Requests, CheckIdempotency(r) PROVE IInv'
  BY <1>3 DEF CheckIdempotency, Answer, Goto, End, Idle, Reply, Row,
      IInv, TypeOK, Busy, OneOwner, RowsHonest, AtMostOnce, AnswersAreTrue, At
<1>4. ASSUME NEW r \in Requests, StoreEvent(r) PROVE IInv'
  <2> DEFINE e == job[r].event
  <2>1. job[r].at = "store" /\ e \in Events /\ UNCHANGED <<handled, replies, crashes>>
    BY <1>4 DEF StoreEvent, IInv, Busy, At
  <2>2. CASE table[e] = "none"
    <3>1. /\ table' = [table EXCEPT ![e] = "pending"]
          /\ job' = [job EXCEPT ![r].at = "process"]
      BY <1>4, <2>2 DEF StoreEvent, Goto
    <3>2. \A q \in Requests : job[q].at \in {"process", "mark"} => job[q].event # e
      BY <2>2 DEF IInv, OneOwner
    <3>3. TypeOK' /\ Busy'
      BY <2>1, <3>1 DEF IInv, TypeOK, Row, Busy, At
    <3>4. OneOwner'
      BY <2>1, <2>2, <3>1, <3>2 DEF IInv, TypeOK, OneOwner, RowsHonest, At
    <3>5. RowsHonest' /\ AtMostOnce' /\ AnswersAreTrue'
      BY <2>1, <2>2, <3>1 DEF IInv, TypeOK, RowsHonest, AtMostOnce, AnswersAreTrue
    <3> QED
      BY <3>3, <3>4, <3>5 DEF IInv
  <2>3. CASE table[e] # "none"
    <3>1. table' = table /\ job' = [job EXCEPT ![r] = Idle]
      BY <1>4, <2>3 DEF StoreEvent, End
    <3> QED
      BY <2>1, <3>1
      DEF Idle, IInv, TypeOK, Busy, OneOwner, RowsHonest, AtMostOnce, AnswersAreTrue, At
  <2> QED
    BY <2>2, <2>3
<1>5. ASSUME NEW r \in Requests, Process(r) PROVE IInv'
  BY <1>5 DEF Process, Goto, IInv, TypeOK, Busy, OneOwner, RowsHonest, AtMostOnce, AnswersAreTrue, At
<1>6. ASSUME NEW r \in Requests, MarkProcessed(r) PROVE IInv'
  <2> DEFINE e == job[r].event
  <2>1. /\ job[r].at = "mark" /\ e \in Events /\ table[e] = "pending"
        /\ handled' = handled /\ crashes' = crashes
        /\ job' = [job EXCEPT ![r] = Idle]
        /\ e \in Supported => handled[e] = 1
    BY <1>6 DEF MarkProcessed, Answer, End, IInv, Busy, OneOwner, At
  <2>2. \A q \in Requests \ {r} : job[q].at \in {"process", "mark"} => job[q].event # e
    BY <2>1 DEF IInv, OneOwner
  <2>3. PICK row \in {"processed", "failed"}, reply \in {"processed", "error"} :
           /\ table' = [table EXCEPT ![e] = row]
           /\ replies' = [replies EXCEPT ![e] = @ \union {reply}]
           /\ row = "processed" <=> e \in Supported
           /\ reply = "processed" <=> e \in Supported
    <3>1. CASE e \in Supported
      BY <1>6, <3>1 DEF MarkProcessed, Answer
    <3>2. CASE e \notin Supported
      BY <1>6, <3>2 DEF MarkProcessed, Answer
    <3> QED
      BY <3>1, <3>2
  <2>4. TypeOK'
    BY <2>1, <2>3 DEF IInv, TypeOK, Row, Reply, Idle
  <2>5. Busy' /\ OneOwner'
    BY <2>1, <2>2, <2>3 DEF IInv, TypeOK, Busy, OneOwner, At, Idle
  <2>6. RowsHonest' /\ AtMostOnce'
    BY <2>1, <2>3 DEF IInv, TypeOK, RowsHonest, AtMostOnce
  <2>7. AnswersAreTrue'
    BY <2>1, <2>3 DEF IInv, TypeOK, AnswersAreTrue
  <2> QED
    BY <2>4, <2>5, <2>6, <2>7 DEF IInv
<1>7. ASSUME NEW r \in Requests, Crash(r) PROVE IInv'
  BY <1>7 DEF Crash, End, Idle, IInv, TypeOK, Busy, OneOwner, RowsHonest, AtMostOnce, AnswersAreTrue, At
<1>8. ASSUME NEW r \in Requests, LoseAnswer(r) PROVE IInv'
  BY <1>8 DEF LoseAnswer, End, Idle, Row,
      IInv, TypeOK, Busy, OneOwner, RowsHonest, AtMostOnce, AnswersAreTrue, At
<1> QED
  BY <1>1, <1>2, <1>3, <1>4, <1>5, <1>6, <1>7, <1>8 DEF Next, HandleWebhookEvent

\* The inductive invariant of the webhook handler.
THEOREM InvariantHolds == ASSUME WebhookAssumption PROVE Spec => []IInv
<1>1. Init => IInv
  BY InitInv
<1>2. IInv /\ [Next]_vars => IInv'
  BY StepInv
<1> QED
  BY <1>1, <1>2, PTL DEF Spec

\* handle_webhook_event never processes an event twice, however deliveries
\* interleave, repeat and fail.
THEOREM ProcessedAtMostOnce == ASSUME WebhookAssumption PROVE Spec => []AtMostOnce
<1>1. Spec => []IInv
  BY InvariantHolds
<1>2. IInv => AtMostOnce
  BY DEF IInv
<1> QED
  BY <1>1, <1>2, PTL

\* Paymenter is told "processed" or "duplicate" only of a processed event.
THEOREM AnswersHonest == ASSUME WebhookAssumption PROVE Spec => []AnswersAreTrue
<1>1. Spec => []IInv
  BY InvariantHolds
<1>2. IInv => AnswersAreTrue
  BY DEF IInv
<1> QED
  BY <1>1, <1>2, PTL
=============================================================================
