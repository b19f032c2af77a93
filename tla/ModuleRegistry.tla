--------------------------- MODULE ModuleRegistry ---------------------------
(***************************************************************************)
(* The registry row of one module and the two Redis keys that cache it.    *)
(*                                                                         *)
(* Administrators toggle the module, requests ask whether it is enabled    *)
(* and with which flags, and every API worker registers it when it starts. *)
(* A toggle commits and then deletes the keys; a request that misses reads *)
(* the row and then fills the key.  Modules share nothing, so one is       *)
(* modelled; of the flags, stop_new_sales stands for the three that have   *)
(* no column of their own.                                                 *)
(***************************************************************************)
CONSTANTS
    Requests,  \* sessions of is_module_enabled and get_module_flags
    Admins,    \* sessions of toggle_module
    Workers,   \* API workers that start
    Defaults,  \* the default_flags of the deployed versions of metadata.py
    Nil

FlagNames == {"enabled", "stop_new_sales"}
Flags == [FlagNames -> BOOLEAN]
Row == [enabled: BOOLEAN, flags: Flags]
Keys == {"module:enabled", "module:flags"}
Sessions == Requests \union Admins \union Workers

ASSUME RegistryAssumption ==
    /\ Defaults \subseteq Flags
    /\ Defaults # {}
    /\ Nil \notin Flags \union BOOLEAN \union Row \union Keys
    /\ Requests \intersect Admins = {}
    /\ Requests \intersect Workers = {}
    /\ Admins \intersect Workers = {}

VARIABLES
    row,       \* the committed row, or Nil
    cache,     \* the value under each key, or Nil
    job,       \* what each session is doing
    disturbed, \* a commit has overtaken a refill, Redis or a process has failed
    calm       \* no toggle or registration begins, and nothing fails, any more

vars == <<row, cache, job, disturbed, calm>>

Idle == [at |-> "idle"]
IsIdle(s) == job[s] = Idle
Wishes == [FlagNames -> BOOLEAN \union {Nil}]   \* a ModuleToggleRequest

TypeOK ==
    /\ row \in Row \union {Nil}
    /\ DOMAIN cache = Keys
    /\ cache["module:enabled"] \in BOOLEAN \union {Nil}
    /\ cache["module:flags"] \in Flags \union {Nil}
    /\ job \in [Sessions ->
                  {Idle}
                  \union [at: {"refill"}, key: {"module:enabled"}, value: BOOLEAN]
                  \union [at: {"refill"}, key: {"module:flags"}, value: Flags]
                  \union [at: {"commit"}, wish: Wishes, seen: Row]
                  \union [at: {"invalidate"}]
                  \union [at: {"register"}, flags: Defaults, seen: Row \union {Nil}]]
    /\ disturbed \in BOOLEAN
    /\ calm \in BOOLEAN

Init ==
    /\ row = Nil
    /\ cache = [k \in Keys |-> Nil]
    /\ job = [s \in Sessions |-> Idle]
    /\ disturbed = FALSE
    /\ calm = FALSE

Become(s, j) == job' = [job EXCEPT ![s] = j]

\* What the row says of a key.
Stored(k) == IF k = "module:enabled" THEN row.enabled ELSE row.flags

-----------------------------------------------------------------------------
(* is_module_enabled, get_module_flags *)

\* Mutated form: a missing row is cached too.
ReadCachesMissing(r, k) ==
    /\ IsIdle(r)
    /\ cache[k] = Nil
    /\ Become(r, [at |-> "refill", key |-> k, value |-> IF row = Nil THEN Nil ELSE Stored(k)])
    /\ UNCHANGED <<row, cache, disturbed, calm>>

\* The cache misses and the row is read; without a row nothing is cached.
Read(r, k) ==
    /\ IsIdle(r)
    /\ cache[k] = Nil
    /\ row # Nil
    /\ Become(r, [at |-> "refill", key |-> k, value |-> Stored(k)])
    /\ UNCHANGED <<row, cache, disturbed, calm>>

\* An error of Redis: it is swallowed, and the keys stay as they are.
RedisFails == ~calm /\ disturbed' = TRUE /\ UNCHANGED cache

\* setex, even if a toggle has come in between.
Refill(r) ==
    /\ job[r].at = "refill"
    /\ \/ cache' = [cache EXCEPT ![job[r].key] = job[r].value] /\ UNCHANGED disturbed
       \/ RedisFails
    /\ Become(r, Idle)
    /\ UNCHANGED <<row, calm>>

\* Mutated form: only the flag key is written with a time to live.
ExpireFlagsOnly(k) ==
    /\ k = "module:flags"
    /\ cache[k] # Nil
    /\ cache' = [cache EXCEPT ![k] = Nil]
    /\ UNCHANGED <<row, job, disturbed, calm>>

\* The time to live that setex gave a key ends.
Expire(k) ==
    /\ cache[k] # Nil
    /\ cache' = [cache EXCEPT ![k] = Nil]
    /\ UNCHANGED <<row, job, disturbed, calm>>

-----------------------------------------------------------------------------
(* toggle_module *)

LoadForToggle(a, wish) ==
    /\ ~calm
    /\ IsIdle(a)
    /\ row # Nil
    /\ Become(a, [at |-> "commit", wish |-> wish, seen |-> row])
    /\ UNCHANGED <<row, cache, disturbed, calm>>

\* Only the enabled column is written, and only if the session has changed it.
\* The flags are changed in the dictionary that was loaded and assigned back:
\* the session compares it with itself, and writes no flags.  A request
\* that has read the row and not yet filled the key is overtaken.
CommitToggle(a) ==
    LET wish == job[a].wish["enabled"] IN
    /\ job[a].at = "commit"
    /\ row' = IF wish # Nil /\ wish # job[a].seen.enabled
                THEN [row EXCEPT !.enabled = wish] ELSE row
    /\ Become(a, [at |-> "invalidate"])
    /\ disturbed' = (disturbed \/ \E r \in Requests : ~IsIdle(r))
    /\ UNCHANGED <<cache, calm>>

\* Mutated form: only the flag key is deleted.
InvalidateFlagsOnly(a) ==
    /\ job[a].at = "invalidate"
    /\ cache' = [cache EXCEPT !["module:flags"] = Nil]
    /\ Become(a, Idle)
    /\ UNCHANGED <<row, disturbed, calm>>

\* Both keys are deleted, or an error of Redis is swallowed.
Invalidate(a) ==
    /\ job[a].at = "invalidate"
    /\ \/ cache' = [k \in Keys |-> Nil] /\ UNCHANGED disturbed
       \/ RedisFails
    /\ Become(a, Idle)
    /\ UNCHANGED <<row, calm>>

-----------------------------------------------------------------------------
(* register_modules *)

LoadForRegister(w, d) ==
    /\ ~calm
    /\ IsIdle(w)
    /\ Become(w, [at |-> "register", flags |-> d, seen |-> row])
    /\ UNCHANGED <<row, cache, disturbed, calm>>

\* Mutated form: the update of an existing row writes enabled as well.
RegisterEnables(w) ==
    LET d == job[w].flags IN
    /\ job[w].at = "register"
    /\ row' = [enabled |-> d["enabled"], flags |-> d]
    /\ Become(w, Idle)
    /\ UNCHANGED <<cache, disturbed, calm>>

\* A new row, unless another worker has inserted it, which ends the worker's
\* registration; or the flags of the existing row.  The cache is not told.
Register(w) ==
    LET d == job[w].flags IN
    /\ job[w].at = "register"
    /\ row' = CASE row = Nil -> [enabled |-> d["enabled"], flags |-> d]
                [] row # Nil /\ job[w].seen # Nil /\ job[w].seen.flags # d
                     -> [row EXCEPT !.flags = d]
                [] OTHER -> row
    /\ Become(w, Idle)
    /\ UNCHANGED <<cache, disturbed, calm>>

-----------------------------------------------------------------------------
\* A session's process dies.
Crash(s) ==
    /\ ~calm
    /\ ~IsIdle(s)
    /\ Become(s, Idle)
    /\ disturbed' = TRUE
    /\ UNCHANGED <<row, cache, calm>>

CalmDown ==
    /\ ~calm
    /\ calm' = TRUE
    /\ UNCHANGED <<row, cache, job, disturbed>>

Next ==
    \/ \E r \in Requests : Refill(r) \/ \E k \in Keys : Read(r, k)
    \/ \E k \in Keys : Expire(k)
    \/ \E a \in Admins :
         CommitToggle(a) \/ Invalidate(a) \/ \E wish \in Wishes : LoadForToggle(a, wish)
    \/ \E w \in Workers : Register(w) \/ \E d \in Defaults : LoadForRegister(w, d)
    \/ \E s \in Sessions : Crash(s)
    \/ CalmDown

\* Sessions that have begun go on, and keys expire.
Fairness ==
    /\ \A r \in Requests : WF_vars(Refill(r))
    /\ \A a \in Admins : WF_vars(CommitToggle(a) \/ Invalidate(a))
    /\ \A w \in Workers : WF_vars(Register(w))
    /\ \A k \in Keys : SF_vars(Expire(k))

Spec == Init /\ [][Next]_vars /\ Fairness

-----------------------------------------------------------------------------
(* Properties *)

\* A key says what the row says, or nothing.
Fresh(k) == cache[k] = Nil \/ (row # Nil /\ cache[k] = Stored(k))

\* As long as no commit has overtaken a refill and nothing has failed, the
\* enabled key is stale only while a toggle is about to delete it.
StaleOnlyInToggle ==
    ~disturbed /\ ~Fresh("module:enabled") => \E a \in Admins : job[a].at = "invalidate"

\* Once the toggles and restarts have ended, requests come to see the row as it
\* is, whatever went wrong before.
Converges == <>[]calm => <>[](\A k \in Keys : Fresh(k))

\* Starting a worker never enables or disables a module that is registered:
\* only a toggle that asks for it does.
RestartKeepsEnabled ==
    [][row # Nil /\ row'.enabled # row.enabled
         => \E a \in Admins :
              job[a].at = "commit" /\ job[a].wish["enabled"] = row'.enabled]_vars

\* toggle_module's docstring, "Toggle module feature flags.": a committed toggle
\* leaves the flag it was asked for.
TogglesFlags ==
    [][\A a \in Admins, b \in BOOLEAN :
         job[a].at = "commit" /\ CommitToggle(a) /\ job[a].wish["stop_new_sales"] = b
            => row'.flags["stop_new_sales"] = b]_vars

-----------------------------------------------------------------------------
(* The inductive invariant *)

\* Whoever has read the row has read one that stays.
RowStays ==
    row = Nil => /\ \A k \in Keys : cache[k] = Nil
                 /\ \A s \in Sessions : job[s].at \in {"idle", "register"}

\* Unless it was overtaken, a request is about to cache what the row says.
RefillsFresh ==
    ~disturbed =>
        \A r \in Requests :
            job[r].at = "refill" /\ job[r].key = "module:enabled" => job[r].value = row.enabled

IInv == TypeOK /\ RowStays /\ RefillsFresh /\ StaleOnlyInToggle
=============================================================================
