-------------------------- MODULE MCModuleRegistry --------------------------
(***************************************************************************)
(* Small instances for TLC of ModuleRegistry and, beside it, of            *)
(* PaymenterWebhook.                                                       *)
(*                                                                         *)
(* The two share no state, so what holds of each alone holds of the whole: *)
(* "part" names the one that moves, while the other keeps its initial      *)
(* state.  With no Events there is only the registry.                      *)
(***************************************************************************)
EXTENDS ModuleRegistry

CONSTANTS Events, Supported, Deliveries, MaxCrashes

VARIABLES part, table, handled, delivery, replies, crashes

Webhook == INSTANCE PaymenterWebhook WITH Requests <- Deliveries, job <- delivery

ASSUME HookAssumption == Webhook!WebhookAssumption

hookVars == <<table, handled, delivery, replies, crashes>>

Enabled == [f \in FlagNames |-> f = "enabled"]

\* The default flags of every module of the repository.
Released == {Enabled}

\* Two versions of a module, of which the second stops sales.
TwoVersions == {Enabled, [f \in FlagNames |-> TRUE]}

MCInit ==
    /\ part \in IF Events = {} THEN {"registry"} ELSE {"registry", "webhook"}
    /\ Init /\ Webhook!Init

MCNext ==
    \/ part = "registry" /\ Next /\ UNCHANGED <<part, hookVars>>
    \/ part = "webhook" /\ Webhook!Next /\ UNCHANGED <<part, vars>>

MCSpec ==
    /\ MCInit /\ [][MCNext]_<<part, vars, hookVars>>
    /\ \/ part = "registry" /\ Fairness
       \/ part = "webhook" /\ Webhook!Fairness

\* An event is processed at most once.
AtMostOnce == Webhook!AtMostOnce

\* Paymenter is told "processed" or "duplicate" only of an event that was processed.
AnswersAreTrue == Webhook!AnswersAreTrue

\* Paymenter gets an answer to every event.
EventuallyAnswered == part = "webhook" => Webhook!EventuallyAnswered

\* The keys of the registry come to say what the row says.
KeysConverge == part = "registry" => Converges
=============================================================================
