-------------------------- MODULE PaymenterWebhook --------------------------
(***************************************************************************)
(* Webhook events from Paymenter and the paymenter_webhook_events table.   *)
(*                                                                         *)
(* Paymenter delivers an event until a delivery is answered with 200, and  *)
(* may deliver it twice at once.  handle_webhook_event looks the event up, *)
(* stores it, processes it and marks it processed; the store and the mark  *)
(* are commits of their own, so deliveries interleave between them and a   *)
(* worker may die there.                                                   *)
(***************************************************************************)
EXTENDS Naturals

CONSTANTS
    Events,    \* event ids
    Supported, \* those of type user.created or payment.succeeded
    Requests,  \* deliveries that can be in progress at once
    MaxCrashes,\* bound on the deliveries that a failure cuts off
    Nil

\* What the proofs assume of the constants.
WebhookAssumption ==
    /\ Supported \subseteq Events
    /\ MaxCrashes \in Nat
    /\ Nil \notin Events

VARIABLES
    table,   \* the committed row of each event: none, or its processed column
    handled, \* how often each event was processed, two standing for more
    job,     \* what each delivery is doing
    replies, \* the answers Paymenter has received for each event
    crashes

vars == <<table, handled, job, replies, crashes>>

Row == {"none", "pending", "processed", "failed"}
Reply == {"processed", "duplicate", "retry", "error"}   \* each a 200

TypeOK ==
    /\ table \in [Events -> Row]
    /\ handled \in [Events -> 0..2]
    /\ job \in [Requests -> [at: {"idle", "check", "store", "process", "mark"},
                             event: Events \union {Nil}]]
    /\ replies \in [Events -> SUBSET Reply]
    /\ crashes \in 0..MaxCrashes

Idle == [at |-> "idle", event |-> Nil]

Init ==
    /\ table = [e \in Events |-> "none"]
    /\ handled = [e \in Events |-> 0]
    /\ job = [r \in Requests |-> Idle]
    /\ replies = [e \in Events |-> {}]
    /\ crashes = 0

At(r, point) == job[r].at = point
Goto(r, point) == job' = [job EXCEPT ![r].at = point]
End(r) == job' = [job EXCEPT ![r] = Idle]

Answer(r, reply) ==
    /\ replies' = [replies EXCEPT ![job[r].event] = @ \union {reply}]
    /\ End(r)

\* Paymenter sends an event that no answer has settled.
Deliver(r, e) ==
    /\ At(r, "idle")
    /\ replies[e] = {}
    /\ job' = [job EXCEPT ![r] = [at |-> "check", event |-> e]]
    /\ UNCHANGED <<table, handled, replies, crashes>>

\* Mutated form: a row counts as a processed event, whatever became of it.
CheckIdempotencyStoredIsDone(r) ==
    /\ At(r, "check")
    /\ IF table[job[r].event] = "none"
         THEN Goto(r, "store") /\ UNCHANGED replies
         ELSE Answer(r, "duplicate")
    /\ UNCHANGED <<table, handled, crashes>>

\* Mutated form: an event in progress is refused instead of answered.
CheckIdempotencyRefusesPending(r) ==
    LET row == table[job[r].event] IN
    /\ At(r, "check")
    /\ \/ row = "none" /\ Goto(r, "store") /\ UNCHANGED replies
       \/ row = "processed" /\ Answer(r, "duplicate")
       \/ row \in {"pending", "failed"} /\ End(r) /\ UNCHANGED replies
    /\ UNCHANGED <<table, handled, crashes>>

\* check_idempotency: an event with a row is not processed again.
CheckIdempotency(r) ==
    LET row == table[job[r].event] IN
    /\ At(r, "check")
    /\ \/ row = "none" /\ Goto(r, "store") /\ UNCHANGED replies
       \/ row = "processed" /\ Answer(r, "duplicate")
       \/ row \in {"pending", "failed"} /\ Answer(r, "retry")
    /\ UNCHANGED <<table, handled, crashes>>

\* Mutated form: event_id is not unique, every delivery stores its own row.
StoreEventAgain(r) ==
    /\ At(r, "store")
    /\ table' = [table EXCEPT ![job[r].event] = "pending"]
    /\ Goto(r, "process")
    /\ UNCHANGED <<handled, replies, crashes>>

\* store_event: the insert commits, or the unique event_id is taken, which is
\* an IntegrityError and a 500.
StoreEvent(r) ==
    LET e == job[r].event IN
    /\ At(r, "store")
    /\ IF table[e] = "none"
         THEN table' = [table EXCEPT ![e] = "pending"] /\ Goto(r, "process")
         ELSE End(r) /\ UNCHANGED table
    /\ UNCHANGED <<handled, replies, crashes>>

\* process_user_created, process_payment_succeeded; other types have no handler.
Process(r) ==
    LET e == job[r].event IN
    /\ At(r, "process")
    /\ handled' = IF e \in Supported
                    THEN [handled EXCEPT ![e] = IF @ = 2 THEN 2 ELSE @ + 1] ELSE handled
    /\ Goto(r, "mark")
    /\ UNCHANGED <<table, replies, crashes>>

\* mark_processed, with an error for an event of an unknown type.
MarkProcessed(r) ==
    LET e == job[r].event IN
    /\ At(r, "mark")
    /\ IF e \in Supported
         THEN table' = [table EXCEPT ![e] = "processed"] /\ Answer(r, "processed")
         ELSE table' = [table EXCEPT ![e] = "failed"] /\ Answer(r, "error")
    /\ UNCHANGED <<handled, crashes>>

\* The worker or its database connection dies: Paymenter gets no answer.
Crash(r) ==
    /\ ~At(r, "idle")
    /\ crashes < MaxCrashes
    /\ crashes' = crashes + 1
    /\ End(r)
    /\ UNCHANGED <<table, handled, replies>>

\* The answer is lost after the event was marked.
LoseAnswer(r) ==
    /\ At(r, "mark")
    /\ crashes < MaxCrashes
    /\ crashes' = crashes + 1
    /\ table' = [table EXCEPT ![job[r].event] =
                   IF job[r].event \in Supported THEN "processed" ELSE "failed"]
    /\ End(r)
    /\ UNCHANGED <<handled, replies>>

HandleWebhookEvent(r) ==
    CheckIdempotency(r) \/ StoreEvent(r) \/ Process(r) \/ MarkProcessed(r)

Next ==
    \E r \in Requests :
        \/ \E e \in Events : Deliver(r, e)
        \/ HandleWebhookEvent(r)
        \/ Crash(r)
        \/ LoseAnswer(r)

\* A delivery that has arrived is worked on, and Paymenter goes on delivering
\* an event until it has an answer.
Fairness ==
    /\ \A r \in Requests : WF_vars(HandleWebhookEvent(r))
    /\ \A e \in Events : SF_vars(\E r \in Requests : Deliver(r, e))

Spec == Init /\ [][Next]_vars /\ Fairness

-----------------------------------------------------------------------------
(* Properties *)

\* However often Paymenter delivers an event and wherever a delivery fails, the
\* event is processed at most once: a payment is never credited twice.
AtMostOnce == \A e \in Events : handled[e] <= 1

\* "processed" and "duplicate" are told to Paymenter only of an event that was
\* processed and is on record as processed, then and ever after.
AnswersAreTrue ==
    \A e \in Events :
        replies[e] \intersect {"processed", "duplicate"} # {}
            => handled[e] = 1 /\ table[e] = "processed"

\* Paymenter gets an answer to every event.
EventuallyAnswered == \A e \in Events : <>(replies[e] # {})

\* handle_webhook_event's answer "Webhook event is already queued for retry": an
\* event so answered is processed in the end.
RetriesHappen ==
    \A e \in Supported : "retry" \in replies[e] ~> table[e] = "processed"

-----------------------------------------------------------------------------
(* The inductive invariant *)

\* A delivery past the store is the only one for its event, whose row is still
\* pending; before Process the event has not been processed.
OneOwner ==
    \A r \in Requests :
        job[r].at \in {"process", "mark"} =>
            /\ table[job[r].event] = "pending"
            /\ At(r, "process") => handled[job[r].event] = 0
            /\ At(r, "mark") /\ job[r].event \in Supported => handled[job[r].event] = 1
            /\ \A q \in Requests \ {r} :
                  job[q].at \in {"process", "mark"} => job[q].event # job[r].event

\* A row says processed only of an event that was; an event without a row was not.
RowsHonest ==
    \A e \in Events :
        /\ table[e] = "none" => handled[e] = 0
        /\ table[e] = "processed" => handled[e] = 1

Busy == \A r \in Requests : ~At(r, "idle") => job[r].event \in Events

IInv == TypeOK /\ Busy /\ OneOwner /\ RowsHonest /\ AtMostOnce /\ AnswersAreTrue
=============================================================================
