--------------------------- MODULE VpsPowerProofs ---------------------------
(***************************************************************************)
(* Theorems of VpsPower, for any number of instances, sessions, power      *)
(* actions and things that guests and operators do.                        *)
(***************************************************************************)
EXTENDS VpsPower, SequenceTheorems, TLAPS

\* What the rows can say of the machines, and what Proxmox is asked for.
LEMMA Values ==
    /\ \A m \in Machine : Mapped(m) \in Status
    /\ Mapped("absent") = "STOPPED"
    /\ \A c \in Calls \ {"config"} : Target(c) \in Machine
    /\ \A a \in Powers : NewStatus(a) \in Status /\ a \in Calls
  BY PowerAssumption DEF Mapped, Status, Machine, Calls, Target, NewStatus

LEMMA Nils ==
    /\ Nil \notin Status /\ Nil \notin Machine /\ Nil \notin Instances
    /\ N \in Instances /\ \A i \in Instances : i > 1 => i - 1 \in Instances
    /\ \A i \in Instances : i - 1 # i
<1>1. Nil \notin Nat /\ N \in Nat \ {0}
  BY PowerAssumption
<1>2. Nil \notin Status /\ Nil \notin Machine
  BY PowerAssumption
<1>3. Nil \notin Instances
  <2>1. Instances \subseteq Nat
    BY <1>1 DEF Instances
  <2> QED
    BY <1>1, <2>1
<1>4. /\ N \in Instances /\ \A i \in Instances : i > 1 => i - 1 \in Instances
      /\ \A i \in Instances : i - 1 # i
  BY <1>1 DEF Instances
<1> QED
  BY <1>2, <1>3, <1>4

LEMMA IdleFormed == Idle \in Job(Seq(Calls)) /\ Idle.kind = "none" /\ Idle.at = "call" /\ Idle.inst = Nil
  BY DEF Idle, Doing, Job, Kinds, Nothing

LEMMA InitInv == Init => IInv
<1> SUFFICES ASSUME Init PROVE IInv
  OBVIOUS
<1>1. TypeOK
  <2>1. job \in [Sessions -> Job(Seq(Calls))]
    BY IdleFormed DEF Init
  <2> QED
    BY <2>1 DEF Init, TypeOK, Machine, Status, Nothing
<1>2. \A w \in Sessions : Formed(w)
  BY IdleFormed DEF Init, Formed
<1> QED
  BY <1>1, <1>2 DEF IInv

\* One session takes up a formed job.
LEMMA Takes ==
    ASSUME IInv, NEW w \in Sessions, NEW j \in Job(Seq(Calls)),
           job' = [job EXCEPT ![w] = j],
           j.kind # "none" => j.inst # Nil,
           j.at # "call" => j.kind # "none",
           j.at \in {"store", "gone"} => j.val # Nil,
           j.kind = "change" =>
             /\ j.at \in {"call", "store"} /\ j.val # Nil
             /\ j.at = "call" => j.todo # <<>>
    PROVE  job' \in [Sessions -> Job(Seq(Calls))] /\ \A q \in Sessions : Formed(q)'
<1>1. job \in [Sessions -> Job(Seq(Calls))] /\ \A q \in Sessions : Formed(q)
  BY DEF IInv, TypeOK
<1>2. job'[w] = j /\ \A q \in Sessions \ {w} : job'[q] = job[q]
  BY <1>1
<1>3. job' \in [Sessions -> Job(Seq(Calls))]
  BY <1>1
<1>4. Formed(w)'
  BY <1>2 DEF Formed
<1>5. \A q \in Sessions \ {w} : Formed(q)'
  BY <1>1, <1>2 DEF Formed
<1> QED
  BY <1>3, <1>4, <1>5

LEMMA Begins ==
    ASSUME IInv, NEW w \in Sessions, NEW i \in Instances, NEW todo \in Seq(Calls),
           todo # <<>>, NEW val \in Status, Begin(w, i, todo, val)
    PROVE  IInv'
<1>1. [Nothing EXCEPT ![i] = status[i]] \in [Instances -> Status \union {Nil}]
  BY DEF Nothing, IInv, TypeOK
<1>2. PICK seen \in [Instances -> Status \union {Nil}] :
        seen = [Nothing EXCEPT ![i] = status[i]]
  BY <1>1
<1>6. PICK j : j = Doing("change", "call", i, todo, val, seen)
  OBVIOUS
<1>3. /\ j \in Job(Seq(Calls)) /\ j.kind = "change" /\ j.at = "call" /\ j.inst = i
      /\ j.todo = todo /\ j.val = val
  <2>1. /\ "change" \in Kinds /\ "call" \in {"call", "read", "store", "gone"}
        /\ i \in Instances \union {Nil} /\ val \in Status \union {Nil}
    BY DEF Kinds
  <2> QED
    BY <1>6, <2>1 DEF Doing, Job
<1>4. job' = [job EXCEPT ![w] = j] /\ UNCHANGED <<actual, pending, status, calm>>
  BY <1>2, <1>6 DEF Begin
<1>5. job' \in [Sessions -> Job(Seq(Calls))] /\ \A q \in Sessions : Formed(q)'
  BY <1>3, <1>4, Takes, Nils
<1> QED
  BY <1>4, <1>5 DEF IInv, TypeOK

LEMMA Finishes ==
    ASSUME IInv, NEW w \in Sessions, Finish(w)
    PROVE  job' \in [Sessions -> Job(Seq(Calls))] /\ \A q \in Sessions : Formed(q)'
  BY Takes, IdleFormed DEF Finish

\* What is known of a session and its job.
LEMMA JobTypes ==
    ASSUME IInv, NEW w \in Sessions
    PROVE  /\ job[w] \in Job(Seq(Calls)) /\ job[w].kind \in Kinds
           /\ job[w].at \in {"call", "read", "store", "gone"}
           /\ job[w].todo \in Seq(Calls) /\ job[w].val \in Status \union {Nil}
           /\ job[w].seen \in [Instances -> Status \union {Nil}]
           /\ job[w].kind # "none" => job[w].inst \in Instances
           /\ job[w].at # "call" => job[w].kind # "none"
           /\ job[w].at \in {"store", "gone"} => job[w].val \in Status
           /\ job[w].kind = "change" =>
                /\ job[w].at \in {"call", "store"} /\ job[w].val \in Status
                /\ job[w].at = "call" => job[w].todo # <<>>
<1>1. job[w] \in Job(Seq(Calls)) /\ Formed(w)
  BY DEF IInv, TypeOK
<1>2. /\ job[w].kind \in Kinds /\ job[w].at \in {"call", "read", "store", "gone"}
      /\ job[w].todo \in Seq(Calls) /\ job[w].val \in Status \union {Nil}
      /\ job[w].seen \in [Instances -> Status \union {Nil}]
      /\ job[w].inst \in Instances \union {Nil}
  BY <1>1 DEF Job
<1> QED
  BY <1>1, <1>2 DEF Formed

\* A call that is accepted: what is left of the operation, and what is pending.
LEMMA Accepted ==
    ASSUME IInv, NEW w \in Sessions, Call(w), ~(Finish(w) /\ UNCHANGED pending)
    PROVE  /\ job[w].kind = "change" /\ job[w].at = "call" /\ job[w].inst \in Instances
           /\ \E j \in Job(Seq(Calls)), m \in Machine \union {Nil} :
                /\ job' = [job EXCEPT ![w] = j]
                /\ pending' = [pending EXCEPT ![job[w].inst] = m]
                /\ j.kind = "change" /\ j.inst = job[w].inst /\ j.val = job[w].val
                /\ j.at = "store" \/ (j.at = "call" /\ j.todo # <<>>)
           /\ UNCHANGED <<actual, status, calm>>
<1>1. /\ job[w].kind = "change" /\ job[w].at = "call" /\ job[w].inst \in Instances
      /\ job[w].todo \in Seq(Calls) /\ job[w].todo # <<>> /\ job[w] \in Job(Seq(Calls))
  BY JobTypes DEF Call
<1>2. PICK c \in Calls, left \in Seq(Calls) :
        c = Head(job[w].todo) /\ left = Tail(job[w].todo)
  BY <1>1, HeadTailProperties
<1>3. PICK m \in Machine \union {Nil} : m = (IF c = "config" THEN Nil ELSE Target(c))
  BY Values
<1>4. PICK at \in {"store", "call"} : at = (IF left = <<>> THEN "store" ELSE "call")
  OBVIOUS
<1>5. /\ pending' = [pending EXCEPT ![job[w].inst] = m]
      /\ job' = [job EXCEPT ![w].todo = left, ![w].at = at]
      /\ UNCHANGED <<actual, status, calm>>
  BY <1>2, <1>3, <1>4 DEF Call
<1>6. PICK j : j = [job[w] EXCEPT !.todo = left, !.at = at]
  OBVIOUS
<1>7. /\ j \in Job(Seq(Calls)) /\ j.kind = "change" /\ j.inst = job[w].inst
      /\ j.val = job[w].val /\ j.at = at /\ j.todo = left
  BY <1>1, <1>4, <1>6 DEF Job
<1>8. job' = [job EXCEPT ![w] = j]
  BY <1>1, <1>5, <1>6 DEF IInv, TypeOK
<1> QED
  BY <1>1, <1>4, <1>5, <1>7, <1>8

\* A reading: what the session is about to write.
LEMMA HasRead ==
    ASSUME IInv, NEW w \in Sessions, ReadVm(w)
    PROVE  /\ job[w].at = "read" /\ job[w].inst \in Instances /\ job[w].kind # "change"
           /\ \E j \in Job(Seq(Calls)) :
                /\ job' = [job EXCEPT ![w] = j]
                /\ j.kind = job[w].kind /\ j.inst = job[w].inst /\ j.at \in {"store", "gone"}
                /\ j.val \in Status
                /\ calm => j.val = Mapped(actual[job[w].inst])
           /\ UNCHANGED <<actual, pending, status, calm>>
<1>1. /\ job[w].at = "read" /\ job[w].inst \in Instances /\ job[w].kind # "change"
      /\ job[w] \in Job(Seq(Calls))
  BY JobTypes DEF ReadVm, Reads
<1>2. PICK m \in Machine : m = actual[job[w].inst]
  BY <1>1 DEF IInv, TypeOK
<1>3. PICK at \in {"store", "gone"}, v \in Status :
        /\ job' = [job EXCEPT ![w].at = at, ![w].val = v]
        /\ calm => v = Mapped(m)
  <2>1. PICK x \in Status : x = Mapped(m)
    BY Values
  <2>2. Reads(w, m, x)
    BY <1>2, <2>1 DEF ReadVm
  <2>3. CASE job' = [job EXCEPT ![w].at = "store", ![w].val = x]
    BY <2>1, <2>3
  <2>4. CASE /\ m = "absent" \/ ~calm
             /\ job' = [job EXCEPT ![w].at = "gone", ![w].val = "STOPPED"]
    BY <2>4, Values DEF Status
  <2> QED
    BY <2>2, <2>3, <2>4 DEF Reads
<1>4. PICK j : j = [job[w] EXCEPT !.at = at, !.val = v]
  OBVIOUS
<1>5. /\ j \in Job(Seq(Calls)) /\ j.kind = job[w].kind /\ j.inst = job[w].inst
      /\ j.at = at /\ j.val = v
  BY <1>1, <1>4 DEF Job
<1>6. job' = [job EXCEPT ![w] = j]
  BY <1>1, <1>3, <1>4 DEF IInv, TypeOK
<1> QED
  BY <1>1, <1>2, <1>3, <1>5, <1>6 DEF ReadVm, Reads

\* A commit: the row it writes, and whether the session goes to the next instance.
LEMMA HasStored ==
    ASSUME IInv, NEW w \in Sessions, Store(w)
    PROVE  /\ job[w].at \in {"store", "gone"} /\ job[w].inst \in Instances
           /\ job[w].val \in Status
           /\ status' \in {status, [status EXCEPT ![job[w].inst] = job[w].val]}
           /\ UNCHANGED <<actual, pending, calm>>
           /\ \/ Finish(w)
              \/ \E j \in Job(Seq(Calls)) :
                   /\ job' = [job EXCEPT ![w] = j]
                   /\ j.kind \notin {"none", "change"} /\ j.at = "read" /\ j.inst \in Instances
<1>1. /\ job[w].at \in {"store", "gone"} /\ job[w].inst \in Instances /\ job[w].val \in Status
      /\ job[w].seen \in [Instances -> Status \union {Nil}] /\ job[w].kind \in Kinds
  BY JobTypes DEF Store, Commit
<1>2. CASE Finish(w)
  BY <1>1, <1>2 DEF Store, Commit
<1>3. CASE /\ GoesOn(w)
           /\ job' = [job EXCEPT ![w] =
                        Doing(job[w].kind, "read", job[w].inst - 1, <<>>, Nil,
                              [job[w].seen EXCEPT ![job[w].inst] = job[w].val])]
  <2>1. job[w].kind \notin {"none", "change"} /\ job[w].inst - 1 \in Instances
    BY <1>1, <1>3, Nils DEF GoesOn
  <2>2. PICK seen \in [Instances -> Status \union {Nil}] :
          seen = [job[w].seen EXCEPT ![job[w].inst] = job[w].val]
    BY <1>1
  <2>3. PICK j : j = Doing(job[w].kind, "read", job[w].inst - 1, <<>>, Nil, seen)
    OBVIOUS
  <2>4. /\ <<>> \in Seq(Calls) /\ "read" \in {"call", "read", "store", "gone"}
        /\ job[w].inst - 1 \in Instances \union {Nil} /\ Nil \in Status \union {Nil}
        /\ job[w].kind \in Kinds
    BY <1>1, <2>1
  <2>5. /\ j \in Job(Seq(Calls)) /\ j.kind = job[w].kind /\ j.at = "read"
        /\ j.inst = job[w].inst - 1
    BY <2>3, <2>4 DEF Doing, Job
  <2>6. job' = [job EXCEPT ![w] = j]
    BY <1>3, <2>2, <2>3
  <2> QED
    BY <1>1, <2>1, <2>5, <2>6 DEF Store, Commit
<1> QED
  BY <1>2, <1>3 DEF Store, Commit

\* Requests that begin with the calls of an operation.
LEMMA Requested ==
    ASSUME IInv, NEW w \in Sessions, NEW i \in Instances,
           PowerAction(w, i) \/ Reinstall(w, i) \/ RollbackSnapshot(w, i)
    PROVE  IInv' /\ ~calm
<1>1. CASE PowerAction(w, i)
  <2>1. PICK a \in Powers : Begin(w, i, <<a>>, NewStatus(a))
    BY <1>1 DEF PowerAction
  <2>2. PICK todo, val : todo = <<a>> /\ val = NewStatus(a)
    OBVIOUS
  <2>3. todo \in Seq(Calls) /\ todo # <<>> /\ val \in Status
    BY <2>2, Values
  <2>4. Begin(w, i, todo, val)
    BY <2>1, <2>2
  <2> QED
    BY <2>3, <2>4, Begins DEF Begin
<1>2. CASE Reinstall(w, i)
  <2>1. PICK stop \in {<<>>, <<"stop">>}, updates \in {<<>>, <<"config">>} :
          Begin(w, i, stop \o updates \o <<"start">>, "RUNNING")
    BY <1>2 DEF Reinstall
  <2>2. PICK todo, val : todo = stop \o updates \o <<"start">> /\ val = "RUNNING"
    OBVIOUS
  <2>0. \A c \in Calls : <<c>> \in Seq(Calls) /\ Len(<<c>>) = 1
    OBVIOUS
  <2>8. "stop" \in Calls /\ "config" \in Calls /\ "start" \in Calls /\ <<>> \in Seq(Calls)
    BY DEF Calls
  <2>3. /\ stop \in Seq(Calls) /\ updates \in Seq(Calls) /\ <<"start">> \in Seq(Calls)
        /\ Len(<<"start">>) = 1
    BY <2>0, <2>1, <2>8
  <2>4. stop \o updates \in Seq(Calls)
    BY <2>3, ConcatProperties
  <2>5. todo \in Seq(Calls) /\ Len(todo) = Len(stop \o updates) + 1
    BY <2>2, <2>3, <2>4, ConcatProperties
  <2>6. todo # <<>> /\ val \in Status
    BY <2>2, <2>4, <2>5, LenProperties, EmptySeq DEF Status
  <2>7. Begin(w, i, todo, val)
    BY <2>1, <2>2
  <2> QED
    BY <2>5, <2>6, <2>7, Begins DEF Begin
<1>3. CASE RollbackSnapshot(w, i)
  <2>1. PICK c \in {"rollback", "rollback_start"}, val \in {"RUNNING", "STOPPED"} :
          Begin(w, i, <<c>>, val)
    BY <1>3 DEF RollbackSnapshot
  <2>2. PICK todo : todo = <<c>>
    OBVIOUS
  <2>3. todo \in Seq(Calls) /\ todo # <<>> /\ val \in Status
    BY <2>2 DEF Calls, Status
  <2>4. Begin(w, i, todo, val)
    BY <2>1, <2>2
  <2> QED
    BY <2>3, <2>4, Begins DEF Begin
<1> QED
  BY <1>1, <1>2, <1>3

\* Sessions that begin to look at an instance.
LEMMA Looks ==
    ASSUME IInv, NEW w \in Sessions, NEW k \in Kinds \ {"none", "change"},
           NEW i \in Instances, NEW seen \in [Instances -> Status \union {Nil}],
           job' = [job EXCEPT ![w] = Doing(k, "read", i, <<>>, Nil, seen)],
           UNCHANGED <<actual, pending, status, calm>>
    PROVE  /\ IInv'
           /\ \E j \in Job(Seq(Calls)) : /\ job' = [job EXCEPT ![w] = j]
                                         /\ j.kind # "change" /\ j.at = "read"
<1>1. PICK j : j = Doing(k, "read", i, <<>>, Nil, seen)
  OBVIOUS
<1>2. /\ <<>> \in Seq(Calls) /\ "read" \in {"call", "read", "store", "gone"}
      /\ Nil \in Status \union {Nil} /\ i \in Instances \union {Nil} /\ k \in Kinds
  OBVIOUS
<1>3. j \in Job(Seq(Calls)) /\ j.kind = k /\ j.at = "read" /\ j.inst = i
  BY <1>1, <1>2 DEF Doing, Job
<1>4. job' = [job EXCEPT ![w] = j]
  BY <1>1
<1>5. job' \in [Sessions -> Job(Seq(Calls))] /\ \A q \in Sessions : Formed(q)'
  BY <1>3, <1>4, Takes, Nils
<1>6. IInv'
  BY <1>5 DEF IInv, TypeOK
<1> QED
  BY <1>3, <1>4, <1>6

LEMMA Syncs ==
    ASSUME IInv, NEW w \in Sessions,
           \/ \E i \in Instances : SyncStatus(w, i)
           \/ \E k \in {"sync_all_vps", "sync_vps_status"} : SyncEach(w, k)
    PROVE  /\ IInv'
           /\ \E j \in Job(Seq(Calls)) : /\ job' = [job EXCEPT ![w] = j]
                                         /\ j.kind # "change" /\ j.at = "read"
           /\ UNCHANGED <<actual, pending, status, calm>>
<1>1. CASE \E i \in Instances : SyncStatus(w, i)
  <2>1. PICK i \in Instances : SyncStatus(w, i)
    BY <1>1
  <2>2. PICK seen \in [Instances -> Status \union {Nil}] :
          seen = [Nothing EXCEPT ![i] = status[i]]
    BY DEF Nothing, IInv, TypeOK
  <2>3. /\ job' = [job EXCEPT ![w] = Doing("sync", "read", i, <<>>, Nil, seen)]
        /\ UNCHANGED <<actual, pending, status, calm>>
    BY <2>1, <2>2 DEF SyncStatus
  <2>4. "sync" \in Kinds \ {"none", "change"}
    BY DEF Kinds
  <2> QED
    BY <2>3, <2>4, Looks
<1>2. CASE \E k \in {"sync_all_vps", "sync_vps_status"} : SyncEach(w, k)
  <2>1. PICK k \in {"sync_all_vps", "sync_vps_status"} : SyncEach(w, k)
    BY <1>2
  <2>2. status \in [Instances -> Status \union {Nil}]
    BY DEF IInv, TypeOK
  <2>3. /\ job' = [job EXCEPT ![w] = Doing(k, "read", N, <<>>, Nil, status)]
        /\ UNCHANGED <<actual, pending, status, calm>>
    BY <2>1 DEF SyncEach
  <2>4. k \in Kinds \ {"none", "change"} /\ N \in Instances
    BY Nils DEF Kinds
  <2> QED
    BY <2>2, <2>3, <2>4, Looks
<1> QED
  BY <1>1, <1>2

LEMMA StepInv == IInv /\ [Next]_vars => IInv'
<1> SUFFICES ASSUME IInv, [Next]_vars PROVE IInv'
  OBVIOUS
<1> USE DEF IInv
<1>1. CASE UNCHANGED vars
  BY <1>1 DEF vars, TypeOK, Formed
<1>2. ASSUME NEW w \in Sessions, NEW i \in Instances,
             PowerAction(w, i) \/ Reinstall(w, i) \/ RollbackSnapshot(w, i)
      PROVE  IInv'
  BY <1>2, Requested
<1>3. ASSUME NEW w \in Sessions,
             \/ \E i \in Instances : SyncStatus(w, i)
             \/ \E k \in {"sync_all_vps", "sync_vps_status"} : SyncEach(w, k)
      PROVE  IInv'
  BY <1>3, Syncs
<1>4. ASSUME NEW w \in Sessions, Call(w) PROVE IInv'
  <2>1. CASE Finish(w) /\ UNCHANGED pending
    BY <1>4, <2>1, Finishes DEF Call, TypeOK
  <2>2. CASE ~(Finish(w) /\ UNCHANGED pending)
    <3>1. job[w].inst \in Instances /\ UNCHANGED <<actual, status, calm>>
      BY <1>4, <2>2, Accepted
    <3>2. PICK j \in Job(Seq(Calls)), m \in Machine \union {Nil} :
            /\ job' = [job EXCEPT ![w] = j]
            /\ pending' = [pending EXCEPT ![job[w].inst] = m]
            /\ j.kind = "change" /\ j.inst = job[w].inst /\ j.val = job[w].val
            /\ j.at = "store" \/ (j.at = "call" /\ j.todo # <<>>)
      BY <1>4, <2>2, Accepted
    <3>3. j.val \in Status /\ j.inst # Nil
      BY <1>4, <3>1, <3>2, JobTypes, Nils DEF Call
    <3>4. job' \in [Sessions -> Job(Seq(Calls))] /\ \A q \in Sessions : Formed(q)'
      BY <3>2, <3>3, Takes, Nils
    <3> QED
      BY <3>1, <3>2, <3>4 DEF TypeOK
  <2> QED
    BY <2>1, <2>2
<1>5. ASSUME NEW w \in Sessions, ReadVm(w) PROVE IInv'
  <2>1. /\ job[w].inst \in Instances /\ job[w].at = "read" /\ job[w].kind # "change"
        /\ UNCHANGED <<actual, pending, status, calm>>
    BY <1>5, HasRead
  <2>2. PICK j \in Job(Seq(Calls)) :
          /\ job' = [job EXCEPT ![w] = j]
          /\ j.kind = job[w].kind /\ j.inst = job[w].inst /\ j.at \in {"store", "gone"}
          /\ j.val \in Status
    BY <1>5, HasRead
  <2>3. j.inst # Nil /\ j.kind # "none" /\ j.kind # "change" /\ j.val # Nil
    BY <2>1, <2>2, JobTypes, Nils
  <2>4. job' \in [Sessions -> Job(Seq(Calls))] /\ \A q \in Sessions : Formed(q)'
    BY <2>2, <2>3, Takes
  <2> QED
    BY <2>1, <2>4 DEF TypeOK
<1>6. ASSUME NEW w \in Sessions, Store(w) PROVE IInv'
  <2>1. /\ job[w].inst \in Instances /\ job[w].val \in Status
        /\ status' \in {status, [status EXCEPT ![job[w].inst] = job[w].val]}
        /\ UNCHANGED <<actual, pending, calm>>
    BY <1>6, HasStored
  <2>2. job' \in [Sessions -> Job(Seq(Calls))] /\ \A q \in Sessions : Formed(q)'
    <3>1. CASE Finish(w)
      BY <3>1, Finishes
    <3>2. CASE ~Finish(w)
      <4>1. PICK j \in Job(Seq(Calls)) :
              /\ job' = [job EXCEPT ![w] = j]
              /\ j.kind \notin {"none", "change"} /\ j.at = "read" /\ j.inst \in Instances
        BY <1>6, <3>2, HasStored
      <4> QED
        BY <4>1, Takes, Nils
    <3> QED
      BY <3>1, <3>2
  <2>3. status' \in [Instances -> Status]
    BY <2>1 DEF TypeOK
  <2> QED
    BY <2>1, <2>2, <2>3 DEF TypeOK
<1>7. ASSUME NEW w \in Sessions, Crash(w) PROVE IInv'
  BY <1>7, Finishes DEF Crash, TypeOK
<1>8. ASSUME NEW i \in Instances, TaskEnds(i) PROVE IInv'
  <2>1. /\ pending[i] \in Machine
        /\ actual' \in {actual, [actual EXCEPT ![i] = pending[i]]}
        /\ pending' = [pending EXCEPT ![i] = Nil]
        /\ UNCHANGED <<status, job, calm>>
    BY <1>8 DEF TaskEnds, TypeOK
  <2> QED
    BY <2>1 DEF TypeOK, Formed
<1>9. ASSUME NEW i \in Instances, NEW m \in Wild, Outside(i, m) PROVE IInv'
  <2>1. m \in Machine
    BY PowerAssumption
  <2> QED
    BY <1>9, <2>1 DEF Outside, TypeOK, Formed
<1>10. ASSUME CalmDown PROVE IInv'
  BY <1>10 DEF CalmDown, TypeOK, Formed
<1>11. Requests \subseteq Sessions /\ FullSync \in Sessions /\ StatusSync \in Sessions
  BY DEF Sessions
<1> QED
  BY <1>1, <1>2, <1>3, <1>4, <1>5, <1>6, <1>7, <1>8, <1>9, <1>10, <1>11 DEF Next, Step

\* The inductive invariant: the types, and what each kind of session has at hand.
THEOREM InvariantHolds == Spec => []IInv
  BY InitInv, StepInv, PTL DEF Spec

\* Type correctness.
THEOREM TypeCorrect == Spec => []TypeOK
<1>1. IInv => TypeOK
  BY DEF IInv
<1> QED
  BY <1>1, InvariantHolds, PTL

\* The job a session takes up leaves a settled instance alone.
LEMMA StaysQuiet ==
    ASSUME IInv, NEW i \in Instances, Settled(i), NEW w \in Sessions,
           NEW j, job' = [job EXCEPT ![w] = j], actual'[i] = actual[i],
           calm' = calm, pending'[i] = pending[i],
           j.kind = "change" /\ j.inst = i => j.at # "call" /\ j.val = Mapped(actual[i]),
           j.at \in {"store", "gone"} /\ j.inst = i => j.val = Mapped(actual[i])
    PROVE  Settled(i)'
<1>1. job'[w] = j /\ \A q \in Sessions \ {w} : job'[q] = job[q]
  BY DEF IInv, TypeOK
<1>2. calm /\ pending[i] = Nil /\ \A q \in Sessions : ~Stale(q, i)
  BY DEF Settled
<1>3. ~Stale(w, i)'
  BY <1>1 DEF Stale
<1>4. \A q \in Sessions \ {w} : ~Stale(q, i)'
  BY <1>1, <1>2 DEF Stale
<1> QED
  BY <1>2, <1>3, <1>4 DEF Settled

LEMMA QuietStep ==
    ASSUME IInv, Next, NEW i \in Instances, Settled(i), Right(i)
    PROVE  Settled(i)' /\ Right(i)'
<1>1. calm /\ pending[i] = Nil /\ \A q \in Sessions : ~Stale(q, i)
  BY DEF Settled
<1>2. ASSUME status'[i] = status[i], actual'[i] = actual[i] PROVE Right(i)'
  BY <1>2 DEF Right
<1>3. ASSUME NEW w \in Sessions, Finish(w), actual' = actual, calm' = calm, pending' = pending
      PROVE  Settled(i)'
  <2>1. PICK j : j = Idle
    OBVIOUS
  <2>2. job' = [job EXCEPT ![w] = j] /\ j.kind = "none" /\ j.at = "call"
    BY <1>3, <2>1, IdleFormed DEF Finish
  <2> QED
    BY <1>3, <2>2, StaysQuiet
<1>4. ASSUME NEW w \in Sessions, NEW k \in Instances,
             PowerAction(w, k) \/ Reinstall(w, k) \/ RollbackSnapshot(w, k)
      PROVE  FALSE
  BY <1>1, <1>4, Requested
<1>5. ASSUME NEW w \in Sessions,
             \/ \E k \in Instances : SyncStatus(w, k)
             \/ \E k \in {"sync_all_vps", "sync_vps_status"} : SyncEach(w, k)
      PROVE  Settled(i)' /\ Right(i)'
  <2>1. PICK j \in Job(Seq(Calls)) : /\ job' = [job EXCEPT ![w] = j]
                                     /\ j.kind # "change" /\ j.at = "read"
    BY <1>5, Syncs
  <2>2. UNCHANGED <<actual, pending, status, calm>>
    BY <1>5, Syncs
  <2> QED
    BY <1>2, <2>1, <2>2, StaysQuiet
<1>6. ASSUME NEW w \in Sessions, Call(w) PROVE Settled(i)' /\ Right(i)'
  <2>1. CASE Finish(w) /\ UNCHANGED pending
    BY <1>2, <1>3, <1>6, <2>1 DEF Call
  <2>2. CASE ~(Finish(w) /\ UNCHANGED pending)
    <3>1. /\ job[w].kind = "change" /\ job[w].at = "call" /\ job[w].inst \in Instances
          /\ UNCHANGED <<actual, status, calm>>
      BY <1>6, <2>2, Accepted
    <3>2. PICK j \in Job(Seq(Calls)), m \in Machine \union {Nil} :
            /\ job' = [job EXCEPT ![w] = j]
            /\ pending' = [pending EXCEPT ![job[w].inst] = m]
            /\ j.kind = "change" /\ j.inst = job[w].inst
      BY <1>6, <2>2, Accepted
    <3>3. job[w].inst # i
      BY <1>1, <3>1 DEF Stale
    <3>4. pending'[i] = pending[i]
      BY <3>2, <3>3 DEF IInv, TypeOK
    <3> QED
      BY <1>2, <3>1, <3>2, <3>3, <3>4, StaysQuiet
  <2> QED
    BY <2>1, <2>2
<1>7. ASSUME NEW w \in Sessions, ReadVm(w) PROVE Settled(i)' /\ Right(i)'
  <2>1. job[w].kind # "change" /\ UNCHANGED <<actual, pending, status, calm>>
    BY <1>7, HasRead
  <2>2. PICK j \in Job(Seq(Calls)) :
          /\ job' = [job EXCEPT ![w] = j]
          /\ j.kind = job[w].kind /\ j.inst = job[w].inst
          /\ j.val = Mapped(actual[job[w].inst])
    BY <1>1, <1>7, HasRead
  <2> QED
    BY <1>2, <2>1, <2>2, StaysQuiet
<1>8. ASSUME NEW w \in Sessions, Store(w) PROVE Settled(i)' /\ Right(i)'
  <2>1. /\ job[w].at \in {"store", "gone"} /\ job[w].inst \in Instances
        /\ status' \in {status, [status EXCEPT ![job[w].inst] = job[w].val]}
        /\ UNCHANGED <<actual, pending, calm>>
    BY <1>8, HasStored
  <2>2. Right(i)'
    <3>1. CASE job[w].inst = i
      <4>1. job[w].val = Mapped(actual[i])
        BY <1>1, <2>1, <3>1 DEF Stale
      <4>2. status'[i] \in {status[i], job[w].val}
        BY <2>1, <3>1 DEF IInv, TypeOK
      <4> QED
        BY <2>1, <4>1, <4>2 DEF Right
    <3>2. CASE job[w].inst # i
      <4>1. status'[i] = status[i]
        BY <2>1, <3>2 DEF IInv, TypeOK
      <4> QED
        BY <1>2, <2>1, <4>1
    <3> QED
      BY <3>1, <3>2
  <2>3. CASE Finish(w)
    BY <1>3, <2>1, <2>2, <2>3
  <2>4. CASE ~Finish(w)
    <3>1. PICK j \in Job(Seq(Calls)) :
            /\ job' = [job EXCEPT ![w] = j]
            /\ j.kind \notin {"none", "change"} /\ j.at = "read" /\ j.inst \in Instances
      BY <1>8, <2>4, HasStored
    <3> QED
      BY <2>1, <2>2, <3>1, StaysQuiet
  <2> QED
    BY <2>3, <2>4
<1>9. ASSUME NEW k \in Instances, TaskEnds(k) PROVE Settled(i)' /\ Right(i)'
  <2>1. /\ k # i /\ UNCHANGED <<status, job, calm>>
        /\ actual' \in {actual, [actual EXCEPT ![k] = pending[k]]}
        /\ pending' = [pending EXCEPT ![k] = Nil]
    BY <1>1, <1>9 DEF TaskEnds
  <2>2. actual'[i] = actual[i] /\ pending'[i] = pending[i]
    BY <2>1 DEF IInv, TypeOK
  <2>3. \A q \in Sessions : ~Stale(q, i)'
    BY <1>1, <2>1, <2>2 DEF Stale
  <2> QED
    BY <1>1, <1>2, <2>1, <2>2, <2>3 DEF Settled
<1>10. Requests \subseteq Sessions /\ FullSync \in Sessions /\ StatusSync \in Sessions
  BY DEF Sessions
<1> QED
  BY <1>1, <1>4, <1>5, <1>6, <1>7, <1>8, <1>9, <1>10
  DEF Next, Step, Crash, Outside, CalmDown

\* Once an instance has settled with its power_status right, no sync with an old
\* reading or an old row, and no task, makes it wrong again.
THEOREM SettledForGood == Spec => SettledStaysRight
<1>1. IInv /\ [Next]_vars =>
        [\A i \in Instances : Settled(i) /\ Right(i) => (Settled(i) /\ Right(i))']_vars
  <2> SUFFICES ASSUME IInv, Next, NEW i \in Instances, Settled(i), Right(i)
               PROVE  Settled(i)' /\ Right(i)'
    OBVIOUS
  <2> QED
    BY QuietStep
<1> QED
  BY <1>1, InvariantHolds, PTL DEF Spec, SettledStaysRight
=============================================================================
