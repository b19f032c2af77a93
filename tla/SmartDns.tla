------------------------------ MODULE SmartDns ------------------------------
(***************************************************************************)
(* The SmartDNS profile of one service and its DNS records.                *)
(*                                                                         *)
(* Requests load what they change, and commit when they end.  A commit     *)
(* writes only the columns that differ from what was loaded, so            *)
(* update_record writes synced = FALSE only over a record it saw synced.   *)
(* The Celery tasks flush their changes and close the session without a    *)
(* commit.  Nothing is sent to PowerDNS yet: "sent" is what a sync had in  *)
(* its hands when it marked a record as synced.                            *)
(***************************************************************************)
EXTENDS Naturals

CONSTANTS
    Requests,    \* sessions of API requests
    Tasks,       \* sessions of sync_dns_zones for one profile
    Contents,    \* what a record may say
    MaxProfiles, \* bound: profiles 1..MaxProfiles are created for the service
    MaxRecords,  \* bound: records 1..MaxRecords are added
    Nil

\* What the proofs assume of the constants.
DnsAssumption ==
    /\ MaxProfiles \in Nat /\ MaxRecords \in Nat
    /\ Requests \intersect Tasks = {}
    /\ Nil \notin Nat /\ Nil \notin [profile: Nat, content: Contents, synced: BOOLEAN]

VARIABLES
    profile,  \* the service's profile, or Nil
    made,     \* profiles created so far
    records,  \* the rows of dns_records, Nil where there is none
    added,    \* records added so far
    job,      \* what each session is doing
    sent,     \* the content each record was last synced with
    raced     \* records updated and synced at the same time, since the last update

vars == <<profile, made, records, added, job, sent, raced>>

Sessions == Requests \union Tasks
RecordIds == 1..MaxRecords
Row == [profile: 1..MaxProfiles, content: Contents, synced: BOOLEAN]

\* A session: what it does, the profile or record it loaded, the rows it saw.
Job == [op: {"none", "create", "delete profile", "add", "update", "delete", "sync", "flushed"},
        id: Nat, content: Contents \union {Nil}, seen: [RecordIds -> Row \union {Nil}]]

NoRows == [i \in RecordIds |-> Nil]
Idle == [op |-> "none", id |-> 0, content |-> Nil, seen |-> NoRows]

TypeOK ==
    /\ profile \in 1..MaxProfiles \union {Nil}
    /\ made \in 0..MaxProfiles /\ added \in 0..MaxRecords
    /\ records \in [RecordIds -> Row \union {Nil}]
    /\ job \in [Sessions -> Job]
    /\ sent \in [RecordIds -> Contents \union {Nil}]
    /\ raced \subseteq RecordIds

Init ==
    /\ profile = Nil /\ made = 0
    /\ records = NoRows /\ added = 0
    /\ job = [w \in Sessions |-> Idle]
    /\ sent = [i \in RecordIds |-> Nil]
    /\ raced = {}

Exist == {i \in RecordIds : records[i] # Nil}
Saw(w) == {i \in RecordIds : job[w].seen[i] # Nil}

\* The rows a task has flushed are locked until its session closes.
Locked == UNION {Saw(t) : t \in {x \in Tasks : job[x].op = "flushed"}}

Does(w, op) == job[w].op = op
Ends(w) == job' = [job EXCEPT ![w] = Idle]
store == <<profile, made, records, added, sent, raced>>

-----------------------------------------------------------------------------
(* A session loads what it is about *)

Loads(w, j) ==
    /\ Does(w, "none")
    /\ job' = [job EXCEPT ![w] = j]
    /\ UNCHANGED store

\* The service must not have a profile.
CreateProfile(w) == profile = Nil /\ Loads(w, [Idle EXCEPT !.op = "create"])

\* The profile must exist.
DeleteProfile(w) ==
    profile # Nil /\ Loads(w, [Idle EXCEPT !.op = "delete profile", !.id = profile])

AddRecord(w) ==
    /\ profile # Nil
    /\ \E c \in Contents :
         Loads(w, [Idle EXCEPT !.op = "add", !.id = profile, !.content = c])

UpdateRecord(w) ==
    \E i \in Exist, c \in Contents :
        Loads(w, [op |-> "update", id |-> i, content |-> c,
                  seen |-> [NoRows EXCEPT ![i] = records[i]]])

DeleteRecord(w) ==
    \E i \in Exist : Loads(w, [Idle EXCEPT !.op = "delete", !.id = i,
                                           !.seen = [NoRows EXCEPT ![i] = records[i]]])

\* sync_records loads the unsynced records of the profile.
SyncRecords(w) ==
    /\ profile # Nil
    /\ Loads(w, [Idle EXCEPT !.op = "sync", !.id = profile,
                   !.seen = [i \in RecordIds |-> IF i \in Exist /\ ~records[i].synced
                                                   THEN records[i] ELSE Nil]])

-----------------------------------------------------------------------------
(* It ends *)

\* service_id is unique: the second of two profiles is refused.
CommitCreate(w) ==
    /\ Does(w, "create") /\ profile = Nil /\ made < MaxProfiles
    /\ made' = made + 1 /\ profile' = made + 1
    /\ Ends(w)
    /\ UNCHANGED <<records, added, sent, raced>>

\* The records of a profile go with it, those the session did not see as well.
CommitDeleteProfile(w) ==
    /\ Does(w, "delete profile") /\ profile = job[w].id
    /\ Locked = {}
    /\ profile' = Nil /\ records' = NoRows
    /\ Ends(w)
    /\ UNCHANGED <<made, added, sent, raced>>

\* Mutated form: the foreign key does not look at the profile.
CommitAddUnchecked(w) ==
    /\ Does(w, "add") /\ added < MaxRecords
    /\ added' = added + 1
    /\ records' = [records EXCEPT ![added + 1] =
                     [profile |-> job[w].id, content |-> job[w].content, synced |-> FALSE]]
    /\ Ends(w)
    /\ UNCHANGED <<profile, made, sent, raced>>

\* The foreign key refuses a record whose profile has gone.
CommitAdd(w) ==
    /\ Does(w, "add") /\ profile = job[w].id /\ added < MaxRecords
    /\ added' = added + 1
    /\ records' = [records EXCEPT ![added + 1] =
                     [profile |-> profile, content |-> job[w].content, synced |-> FALSE]]
    /\ Ends(w)
    /\ UNCHANGED <<profile, made, sent, raced>>

\* Sessions that have loaded record i in order to sync, or to update it.
Holds(i, op) == {w \in Requests : Does(w, op) /\ i \in Saw(w)}

\* The columns that changed: the content, and synced if it was seen TRUE.
\* Where the row has gone the update matches nothing and the request fails.
Update(w, reset) ==
    LET i == job[w].id IN
    /\ Does(w, "update") /\ i \in Exist \ Locked
    /\ records' = [records EXCEPT ![i].content = job[w].content,
                                  ![i].synced = @ /\ ~reset]
    /\ raced' = IF records[i] # job[w].seen[i] \/ Holds(i, "sync") # {}
                  THEN raced \union {i} ELSE raced \ {i}
    /\ Ends(w)
    /\ UNCHANGED <<profile, made, added, sent>>

\* Mutated form: update_record leaves the flag alone.
CommitUpdateKeepsFlag(w) == Update(w, FALSE)

CommitUpdate(w) == Update(w, job[w].id \in Saw(w) /\ job[w].seen[job[w].id].synced)

CommitDelete(w) ==
    /\ Does(w, "delete") /\ job[w].id \in Exist \ Locked
    /\ records' = [records EXCEPT ![job[w].id] = Nil]
    /\ Ends(w)
    /\ UNCHANGED <<profile, made, added, sent, raced>>

\* Every record that was loaded is marked, whatever it says by now; if one of
\* them has gone the whole commit fails.
CommitSync(w) ==
    /\ Does(w, "sync") /\ w \in Requests
    /\ Saw(w) \subseteq Exist \ Locked
    /\ records' = [i \in RecordIds |-> IF i \in Saw(w) THEN [records[i] EXCEPT !.synced = TRUE]
                                                       ELSE records[i]]
    /\ sent' = [i \in RecordIds |-> IF i \in Saw(w) THEN job[w].seen[i].content ELSE sent[i]]
    /\ Ends(w)
    /\ UNCHANGED <<profile, made, added, raced>>

\* sync_dns_zones flushes the same update, and the session closes without commit.
TaskFlushes(t) ==
    /\ Does(t, "sync")
    /\ Saw(t) \subseteq Exist \ Locked
    /\ job' = [job EXCEPT ![t].op = "flushed"]
    /\ UNCHANGED store

\* The session is rolled back: a refused commit, a death, a task's end.
RollBack(w) ==
    /\ ~Does(w, "none")
    /\ Ends(w)
    /\ UNCHANGED store

Next ==
    \/ \E w \in Requests :
         \/ CreateProfile(w) \/ DeleteProfile(w) \/ AddRecord(w) \/ UpdateRecord(w)
         \/ DeleteRecord(w) \/ SyncRecords(w)
         \/ CommitCreate(w) \/ CommitDeleteProfile(w) \/ CommitAdd(w) \/ CommitUpdate(w)
         \/ CommitDelete(w) \/ CommitSync(w)
    \/ \E t \in Tasks : SyncRecords(t) \/ TaskFlushes(t)
    \/ \E w \in Sessions : RollBack(w)

Spec == Init /\ [][Next]_vars

-----------------------------------------------------------------------------
(* Properties *)

\* A record that counts as synced says what the sync had in its hands, unless an
\* update and a sync of it overlapped; the next update that meets no sync heals
\* such a record.
SyncedIsCurrent ==
    \A i \in Exist \ raced : records[i].synced => records[i].content = sent[i]

\* Whatever requests overlap with the deletion of a profile and the creation of
\* the next, every record belongs to the profile the service has.
RecordsBelong == \A i \in Exist : records[i].profile = profile

-----------------------------------------------------------------------------
(* The inductive invariant *)

\* A record that does not exist yet is in no row and in no session.
OnlyAdded ==
    \A i \in RecordIds : i > added =>
        records[i] = Nil /\ \A w \in Sessions : job[w].seen[i] = Nil

\* Unless an update came between, a sync has in its hands what the record says.
HeldIsCurrent ==
    \A i \in Exist \ raced : \A w \in Holds(i, "sync") :
        records[i].content = job[w].seen[i].content

HasContent ==
    \A w \in Sessions : Does(w, "add") \/ Does(w, "update") => job[w].content \in Contents

IInv == TypeOK /\ HasContent /\ SyncedIsCurrent /\ RecordsBelong /\ OnlyAdded /\ HeldIsCurrent
=============================================================================
