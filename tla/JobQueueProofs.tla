--------------------------- MODULE JobQueueProofs ---------------------------
(***************************************************************************)
(* Theorems about the jobs table and its workers, for every number of      *)
(* workers, rows, keys and attempts and every lease.                       *)
(***************************************************************************)
EXTENDS JobQueueProps, TLAPS

-----------------------------------------------------------------------------
\* What the steps shared by several actions do to the types.

\* Claiming a row keeps the columns in their types.
LEMMA LockTypes ==
    ASSUME TableType, NEW j \in JobIds, NEW w \in Workers, Lock(j, w)
    PROVE  TableType'
BY QueueAssumption DEF TableType, Lock, Status, Active

\* So do the outcomes Complete, Dead and Retry write.
LEMMA SettleTypes ==
    ASSUME TableType, NEW j \in JobIds, NEW outcome \in Terminal \cup {"retry_wait"},
           Settle(j, outcome), due' \in [JobIds -> Int]
    PROVE  TableType'
<1>1. outcome \in Status
    BY DEF Status, Active, Waiting
<1>2. status' \in [JobIds -> Status]
    BY <1>1 DEF TableType, Settle
<1>3. lockedBy' \in [JobIds -> Workers \cup {NoWorker}] /\ leaseLeft' \in [JobIds -> Int]
    BY DEF TableType, Settle
<1> QED BY <1>2, <1>3 DEF TableType, Settle

\* A worker that leaves its job is in a state of its type.
LEMMA LeaveTypes ==
    ASSUME WorkerType, NEW w \in Workers, NEW control \in {"idle", "down"}, Leave(w, control)
    PROVE  WorkerType'
BY DEF WorkerType, Leave, Control, Finishing, Busy

\* The table keeps its type through a step that does not write it.
LEMMA TableUnchanged == TableType /\ UNCHANGED tableVars => TableType'
BY DEF TableType, tableVars

\* The processes keep theirs through a step of the table alone.
LEMMA WorkerUnchanged == WorkerType /\ UNCHANGED workerVars => WorkerType'
BY DEF WorkerType, workerVars, Busy

\* The ticker of keepLeaseAlive has a period in whole ticks.
LEMMA IntervalNat == Interval \in Nat
BY QueueAssumption DEF Interval

-----------------------------------------------------------------------------
\* The table, the processes and the fault counter keep their types, and a worker
\* that is busy is busy with a row of the table.
THEOREM TypeCorrect == Spec => []TypeOK
<1>1. Init => TypeOK
    BY QueueAssumption
       DEF Init, TypeOK, TableType, WorkerType, Busy, Status, Control, Finishing
<1>2. TypeOK /\ [Next]_vars => TypeOK'
    <2> SUFFICES ASSUME TypeOK, [Next]_vars PROVE TypeOK'
        OBVIOUS
    <2> TableType /\ WorkerType /\ faults \in Nat
        BY DEF TypeOK
    <2> USE DEF TypeOK
    <2>1. ASSUME NEW k \in Keys \cup {NoKey}, NEW limit \in AttemptLimits, Enqueue(k, limit)
          PROVE  TypeOK'
        <3>1. TableType'
            BY <2>1, QueueAssumption DEF Enqueue, TableType, Status, Active, Waiting
        <3> QED BY <2>1, <3>1, WorkerUnchanged DEF Enqueue
    <2>2. ASSUME NEW w \in Workers, RecoverExpiredLeases(w) PROVE TypeOK'
        <3>1. TableType'
            BY <2>2 DEF RecoverExpiredLeases, TableType, Status, Active, Waiting
        <3>2. WorkerType'
            BY <2>2 DEF RecoverExpiredLeases, WorkerType, Busy, Control, Finishing
        <3> QED BY <2>2, <3>1, <3>2 DEF RecoverExpiredLeases
    <2>3. ASSUME NEW w \in Workers, ClaimNext(w) PROVE TypeOK'
        <3>1. PICK j \in JobIds : Lock(j, w) /\ at' = [at EXCEPT ![w] = j]
            BY <2>3 DEF ClaimNext
        <3>2. WorkerType'
            BY <2>3, <3>1, IntervalNat DEF ClaimNext, WorkerType, Busy, Control, Finishing
        <3> QED BY <2>3, <3>1, <3>2, LockTypes DEF ClaimNext
    <2>4. ASSUME NEW w \in Workers, NothingToClaim(w) PROVE TypeOK'
        BY <2>4, TableUnchanged, LeaveTypes DEF NothingToClaim
    <2>5. ASSUME NEW w \in Workers, ClaimFails(w) PROVE TypeOK'
        BY <2>5, TableUnchanged, LockTypes, LeaveTypes DEF ClaimFails, Fault
    <2>6. ASSUME NEW w \in Workers, ExtendLease(w) PROVE TypeOK'
        <3>1. leaseLeft' \in [JobIds -> Int]
            <4> DEFINE left == IF lockedBy[at[w]] = w /\ status[at[w]] = "running"
                               THEN Lease ELSE leaseLeft[at[w]]
            <4>1. leaseLeft' = [leaseLeft EXCEPT ![at[w]] = left]
                BY <2>6 DEF ExtendLease
            <4>2. at[w] \in JobIds
                BY <2>6 DEF ExtendLease, HeartbeatDue, WorkerType, Busy
            <4>3. left \in Int
                BY <4>2, QueueAssumption DEF TableType
            <4> HIDE DEF left
            <4> QED BY <4>1, <4>3 DEF TableType
        <3>2. TableType'
            BY <2>6, <3>1 DEF ExtendLease, TableType
        <3>3. WorkerType'
            BY <2>6, IntervalNat DEF ExtendLease, WorkerType, Busy
        <3> QED BY <2>6, <3>2, <3>3 DEF ExtendLease
    <2>7. ASSUME NEW w \in Workers, ExtendLeaseFails(w) PROVE TypeOK'
        <3>1. WorkerType'
            BY <2>7, IntervalNat DEF ExtendLeaseFails, WorkerType, Busy
        <3> QED BY <2>7, <3>1, TableUnchanged DEF ExtendLeaseFails
    <2>8. ASSUME NEW w \in Workers, HandlerReturns(w) PROVE TypeOK'
        <3>1. WorkerType'
            BY <2>8, QueueAssumption
               DEF HandlerReturns, WorkerType, Busy, Control, Finishing
        <3> QED BY <2>8, <3>1, TableUnchanged DEF HandlerReturns
    <2>9. ASSUME NEW w \in Workers, FinalWrite(w) PROVE TypeOK'
        <3>1. WorkerType' /\ faults' \in Nat
            BY <2>9, LeaveTypes
               DEF FinalWrite, Complete, Dead, RetryExhausted, Retry, RetryRefused
        <3>2. at[w] \in JobIds
            BY <2>9 DEF FinalWrite, Complete, Dead, RetryExhausted, Retry, RetryRefused,
                        WorkerType, Busy, Finishing
        <3>3. CASE Complete(w) \/ Dead(w) \/ RetryExhausted(w)
            <4>1. due' \in [JobIds -> Int]
                BY <3>3 DEF Complete, Dead, RetryExhausted, TableType
            <4> QED BY <3>1, <3>2, <3>3, <4>1, SettleTypes
                    DEF Complete, Dead, RetryExhausted, Terminal
        <3>4. CASE Retry(w)
            <4>1. PICK delay \in Backoff : due' = [due EXCEPT ![at[w]] = delay]
                BY <3>4 DEF Retry
            <4>2. delay \in Int
                BY QueueAssumption
            <4>3. due' \in [JobIds -> Int]
                BY <4>1, <4>2 DEF TableType
            <4> QED BY <3>1, <3>2, <3>4, <4>3, SettleTypes DEF Retry
        <3>5. CASE RetryRefused(w)
            BY <3>1, <3>5, TableUnchanged DEF RetryRefused
        <3> QED BY <2>9, <3>3, <3>4, <3>5 DEF FinalWrite
    <2>10. ASSUME NEW w \in Workers, FinalWriteFails(w) \/ Crash(w) \/ Restart(w)
           PROVE  TypeOK'
        BY <2>10, TableUnchanged, LeaveTypes DEF FinalWriteFails, Crash, Restart, Fault
    <2>11. ASSUME Tick PROVE TypeOK'
        <3>1. TableType'
            BY <2>11 DEF Tick, TableType
        <3>2. WorkerType'
            BY <2>11 DEF Tick, Punctual, WorkerType, Busy
        <3> QED BY <2>11, <3>1, <3>2 DEF Tick
    <2>12. CASE UNCHANGED vars
        BY <2>12, TableUnchanged, WorkerUnchanged DEF vars
    <2> QED
        BY <2>1, <2>2, <2>3, <2>4, <2>5, <2>6, <2>7, <2>8, <2>9, <2>10, <2>11, <2>12
           DEF Next, RunOnce
<1> QED
    BY <1>1, <1>2, PTL DEF Spec

-----------------------------------------------------------------------------
\* The index and the two places that can break it: the insert and the retry.

\* Fewer active rows with the same keys cannot break the index.
LEMMA FewerActive ==
    ASSUME OneActivePerKey, key' = key,
           \A j \in JobIds : status'[j] \in Active => status[j] \in Active
    PROVE  OneActivePerKey'
BY DEF OneActivePerKey

\* A claimed row was active already.
LEMMA LockActive ==
    ASSUME TableType, NEW j \in JobIds, NEW w \in Workers, First(j), Lock(j, w)
    PROVE  key' = key /\ \A i \in JobIds : status'[i] \in Active => status[i] \in Active
BY DEF TableType, First, Claimable, Lock, Active

\* An outcome that ends a job makes no row active.
LEMMA SettleActive ==
    ASSUME TableType, NEW j \in JobIds, NEW outcome \in Terminal, Settle(j, outcome)
    PROVE  key' = key /\ \A i \in JobIds : status'[i] \in Active => status[i] \in Active
BY DEF TableType, Settle, Active, Waiting, Terminal

\* At most one row per deduplication key is active, whatever the timing: even a
\* worker that lost its lease cannot retry a job whose key is taken.
THEOREM UniqueActiveKey == Spec => []OneActivePerKey
<1>1. Init => OneActivePerKey
    BY DEF Init, OneActivePerKey, Active, Waiting
<1>2. TypeOK /\ OneActivePerKey /\ [Next]_vars => OneActivePerKey'
    <2> SUFFICES ASSUME TypeOK, OneActivePerKey, [Next]_vars PROVE OneActivePerKey'
        OBVIOUS
    <2> TableType /\ WorkerType
        BY DEF TypeOK
    <2>1. ASSUME NEW k \in Keys \cup {NoKey}, NEW limit \in AttemptLimits, Enqueue(k, limit)
          PROVE  OneActivePerKey'
        BY <2>1 DEF Enqueue, KeyFree, OneActivePerKey, TableType
    <2>2. ASSUME NEW w \in Workers, RecoverExpiredLeases(w) PROVE OneActivePerKey'
        BY <2>2, FewerActive DEF RecoverExpiredLeases, Expired, Active
    <2>3. ASSUME NEW w \in Workers, ClaimNext(w) PROVE OneActivePerKey'
        BY <2>3, FewerActive, LockActive DEF ClaimNext
    <2>4. ASSUME NEW w \in Workers, ClaimFails(w) PROVE OneActivePerKey'
        BY <2>4, FewerActive, LockActive DEF ClaimFails, tableVars
    <2>5. ASSUME NEW w \in Workers, FinalWrite(w) PROVE OneActivePerKey'
        <3>1. at[w] \in JobIds
            BY <2>5 DEF FinalWrite, Complete, Dead, RetryExhausted, Retry, RetryRefused,
                        WorkerType, Busy, Finishing
        <3>2. CASE Complete(w) \/ Dead(w) \/ RetryExhausted(w)
            BY <3>1, <3>2, FewerActive, SettleActive DEF Complete, Dead, RetryExhausted, Terminal
        <3>3. CASE Retry(w)
            BY <3>1, <3>3 DEF Retry, Settle, KeyFree, OneActivePerKey, TableType
        <3>4. CASE RetryRefused(w)
            BY <3>4, FewerActive DEF RetryRefused, tableVars
        <3> QED BY <2>5, <3>2, <3>3, <3>4 DEF FinalWrite
    <2>6. CASE UNCHANGED <<status, key>>
        BY <2>6, FewerActive
    <2>7. ASSUME NEW w \in Workers,
                 NothingToClaim(w) \/ ExtendLease(w) \/ ExtendLeaseFails(w)
                 \/ HandlerReturns(w) \/ FinalWriteFails(w) \/ Crash(w) \/ Restart(w)
          PROVE  UNCHANGED <<status, key>>
        BY <2>7 DEF NothingToClaim, ExtendLease, ExtendLeaseFails, HandlerReturns,
                    FinalWriteFails, Crash, Restart, tableVars
    <2>8. Tick \/ UNCHANGED vars => UNCHANGED <<status, key>>
        BY DEF Tick, vars, tableVars
    <2> QED
        BY <2>1, <2>2, <2>3, <2>4, <2>5, <2>6, <2>7, <2>8 DEF Next, RunOnce
<1> QED
    BY <1>1, <1>2, TypeCorrect, PTL DEF Spec

-----------------------------------------------------------------------------
\* Leases.  The invariant is LeaseHeld; TypeOK alone does not exclude a row that
\* is taken back while its worker is still busy with it.

\* The lease of a busy worker has not expired.
LEMMA NotExpired ==
    ASSUME LeaseCovers, TypeOK, LeaseHeld, NEW w \in Workers, Busy(w)
    PROVE  ~Expired(at[w])
<1>1. leaseLeft[at[w]] + silence[w] = Lease /\ silence[w] + timer[w] <= MaxSilence + FinishBound
    BY QueueAssumption DEF LeaseHeld, Busy, TypeOK, WorkerType
<1>2. at[w] \in JobIds /\ leaseLeft[at[w]] \in Int /\ silence[w] \in Nat /\ timer[w] \in Nat
    BY DEF TypeOK, WorkerType, TableType
<1> QED
    BY <1>1, <1>2, QueueAssumption DEF LeaseCovers, Expired

\* Two busy workers cannot both be the one locked_by names.
LEMMA OneHolder == LeaseHeld => ExclusiveExecution
BY DEF LeaseHeld, ExclusiveExecution

\* A worker that leaves its job, and what it writes to that job's row, does not
\* touch the lease of another worker.
LEMMA LeaveLeases ==
    ASSUME TypeOK, LeaseHeld, NEW w \in Workers, NEW control \in {"idle", "down"},
           Leave(w, control),
           \A j \in JobIds : (\A v \in Workers \ {w} : Busy(v) => at[v] # j) \/
               (status'[j] = status[j] /\ lockedBy'[j] = lockedBy[j] /\ leaseLeft'[j] = leaseLeft[j])
    PROVE  LeaseHeld'
<1> SUFFICES ASSUME NEW v \in Workers, Busy(v)'
             PROVE  LeaseHeld!(v)'
    BY DEF LeaseHeld
<1>1. v # w /\ Busy(v) /\ at'[v] = at[v] /\ pc'[v] = pc[v]
      /\ timer'[v] = timer[v] /\ silence'[v] = silence[v]
    BY DEF Leave, Busy, Finishing, TypeOK, WorkerType
<1> QED
    BY <1>1 DEF LeaseHeld, TypeOK, WorkerType

\* A row that can be claimed is no busy worker's, so claiming it leaves their leases alone.
LEMMA LockLeases ==
    ASSUME TypeOK, LeaseHeld, NEW j \in JobIds, NEW w \in Workers, ~Busy(w), First(j), Lock(j, w)
    PROVE  \A v \in Workers : Busy(v) =>
               /\ at[v] # j
               /\ status'[at[v]] = status[at[v]] /\ lockedBy'[at[v]] = lockedBy[at[v]]
               /\ leaseLeft'[at[v]] = leaseLeft[at[v]]
BY DEF TypeOK, WorkerType, TableType, LeaseHeld, First, Claimable, Waiting, Lock

\* No worker is busy at first.
LEMMA LeaseHeldInit == Init => LeaseHeld
BY DEF Init, LeaseHeld, Busy, Finishing

\* Every step of a worker, of a caller and of time keeps the leases of busy workers.
LEMMA LeaseHeldStep ==
    ASSUME LeaseCovers, TypeOK, LeaseHeld, [Next]_vars
    PROVE  LeaseHeld'
<1> TableType /\ WorkerType
    BY DEF TypeOK
<1>1. ASSUME NEW k \in Keys \cup {NoKey}, NEW limit \in AttemptLimits, Enqueue(k, limit)
      PROVE  LeaseHeld'
    BY <1>1 DEF Enqueue, LeaseHeld, Busy, workerVars, TableType, WorkerType
<1>2. ASSUME NEW w \in Workers, RecoverExpiredLeases(w) PROVE LeaseHeld'
    <2>1. \A v \in Workers : Busy(v)' => Busy(v) /\ pc'[v] = pc[v] /\ at[v] \in JobIds
        BY <1>2 DEF RecoverExpiredLeases, Busy, Finishing, WorkerType
    <2>2. \A v \in Workers : Busy(v) => ~Expired(at[v])
        BY NotExpired
    <2> QED
        BY <1>2, <2>1, <2>2 DEF RecoverExpiredLeases, LeaseHeld
<1>3. ASSUME NEW w \in Workers, ClaimNext(w) PROVE LeaseHeld'
    <2>1. PICK j \in JobIds : First(j) /\ Lock(j, w) /\ at' = [at EXCEPT ![w] = j]
        BY <1>3 DEF ClaimNext
    <2>2. ~Busy(w)
        BY <1>3 DEF ClaimNext, Busy, Finishing
    <2>3. \A v \in Workers \ {w} : /\ Busy(v)' <=> Busy(v)
                                    /\ UNCHANGED <<pc[v], at[v], timer[v], silence[v]>>
        BY <1>3, <2>1 DEF ClaimNext, Busy, WorkerType
    <2>4. ASSUME NEW v \in Workers \ {w}, Busy(v)' PROVE LeaseHeld!(v)'
        BY <2>1, <2>2, <2>3, <2>4, LockLeases DEF LeaseHeld
    <2>5. LeaseHeld!(w)'
        BY <1>3, <2>1, QueueAssumption, IntervalNat
           DEF ClaimNext, Lock, TableType, WorkerType, LeaseCovers, Finishing
    <2> QED
        BY <2>4, <2>5 DEF LeaseHeld
<1>4. ASSUME NEW w \in Workers, NothingToClaim(w) \/ FinalWriteFails(w) \/ Crash(w) \/ Restart(w)
      PROVE  LeaseHeld'
    BY <1>4, LeaveLeases DEF NothingToClaim, FinalWriteFails, Crash, Restart, tableVars
<1>5. ASSUME NEW w \in Workers, ClaimFails(w) PROVE LeaseHeld'
    <2>1. ~Busy(w) /\ Leave(w, "idle")
        BY <1>5 DEF ClaimFails, Busy, Finishing
    <2>2. CASE UNCHANGED tableVars
        BY <2>1, <2>2, LeaveLeases DEF tableVars
    <2>3. CASE \E j \in JobIds : First(j) /\ Lock(j, w)
        BY <2>1, <2>3, LockLeases, LeaveLeases
    <2> QED BY <1>5, <2>2, <2>3 DEF ClaimFails
<1>6. ASSUME NEW w \in Workers, ExtendLease(w) PROVE LeaseHeld'
    <2>1. /\ Busy(w) /\ at[w] \in JobIds
          /\ status[at[w]] = "running" /\ lockedBy[at[w]] = w
        BY <1>6 DEF ExtendLease, HeartbeatDue, Busy, WorkerType, LeaseHeld
    <2>2. /\ leaseLeft' = [leaseLeft EXCEPT ![at[w]] = Lease]
          /\ UNCHANGED <<status, lockedBy, pc, at>>
        BY <1>6, <2>1 DEF ExtendLease
    <2>3. LeaseHeld!(w)'
        BY <1>6, <2>1, <2>2, QueueAssumption, IntervalNat
           DEF ExtendLease, HeartbeatDue, TableType, WorkerType, LeaseCovers, Finishing
    <2>4. ASSUME NEW v \in Workers \ {w}, Busy(v)' PROVE LeaseHeld!(v)'
        <3>1. Busy(v) /\ timer'[v] = timer[v] /\ silence'[v] = silence[v]
            BY <1>6, <2>2, <2>4 DEF ExtendLease, Busy, WorkerType
        <3>2. at[v] # at[w] /\ at[v] \in JobIds
            BY <2>1, <3>1 DEF LeaseHeld, WorkerType
        <3> QED BY <2>2, <3>1, <3>2 DEF LeaseHeld, TableType
    <2> QED
        BY <2>3, <2>4 DEF LeaseHeld
<1>7. ASSUME NEW w \in Workers, ExtendLeaseFails(w) PROVE LeaseHeld'
    BY <1>7, IntervalNat
       DEF ExtendLeaseFails, HeartbeatDue, LeaseHeld, Busy, Finishing, tableVars, WorkerType
<1>8. ASSUME NEW w \in Workers, HandlerReturns(w) PROVE LeaseHeld'
    BY <1>8, QueueAssumption
       DEF HandlerReturns, LeaseHeld, Busy, Finishing, tableVars, WorkerType
<1>9. ASSUME NEW w \in Workers, FinalWrite(w) PROVE LeaseHeld'
    <2>1. Busy(w) /\ Leave(w, "idle")
        BY <1>9 DEF FinalWrite, Complete, Dead, RetryExhausted, Retry, RetryRefused,
                    Busy, Finishing
    <2>2. \A j \in JobIds \ {at[w]} : /\ status'[j] = status[j]
                                      /\ lockedBy'[j] = lockedBy[j]
                                      /\ leaseLeft'[j] = leaseLeft[j]
        BY <1>9 DEF FinalWrite, Complete, Dead, RetryExhausted, Retry, RetryRefused,
                    Settle, tableVars, TableType
    <2>3. \A v \in Workers \ {w} : Busy(v) => at[v] # at[w]
        BY <2>1, OneHolder DEF ExclusiveExecution
    <2> QED
        BY <2>1, <2>2, <2>3, LeaveLeases
<1>10. ASSUME Tick PROVE LeaseHeld'
    <2> SUFFICES ASSUME NEW w \in Workers, Busy(w)' PROVE LeaseHeld!(w)'
        BY DEF LeaseHeld
    <2>1. Busy(w) /\ timer'[w] = timer[w] - 1 /\ silence'[w] = silence[w] + 1
        BY <1>10 DEF Tick, Busy
    <2>2. at[w] \in JobIds /\ leaseLeft[at[w]] >= 0
        BY <2>1, NotExpired DEF Expired, LeaseHeld, WorkerType, TableType
    <2>3. leaseLeft'[at[w]] = leaseLeft[at[w]] - 1
        BY <1>10, <2>1, <2>2 DEF Tick, LeaseHeld
    <2> QED
        BY <1>10, <2>1, <2>2, <2>3, QueueAssumption
           DEF Tick, LeaseHeld, TableType, WorkerType, Punctual
<1>11. CASE UNCHANGED vars
    BY <1>11 DEF vars, tableVars, workerVars, LeaseHeld, Busy
<1> QED
    BY <1>1, <1>2, <1>3, <1>4, <1>5, <1>6, <1>7, <1>8, <1>9, <1>10, <1>11 DEF Next, RunOnce

\* A busy worker holds the lease of its job, when the lease covers the time its
\* heartbeats may stay away and its final write may take.
THEOREM LeasesHold ==
    ASSUME LeaseCovers
    PROVE  Spec => []LeaseHeld
<1>1. TypeOK /\ LeaseHeld /\ [Next]_vars => LeaseHeld'
    BY LeaseHeldStep
<1> QED
    BY <1>1, LeaseHeldInit, TypeCorrect, PTL DEF Spec

\* Then no two workers execute the same job, and every final write reaches a row
\* its worker holds although none of them checks locked_by.
THEOREM NoDoubleExecution ==
    ASSUME LeaseCovers
    PROVE  Spec => [](ExclusiveExecution /\ HolderOwnsRow)
<1>1. LeaseHeld => ExclusiveExecution /\ HolderOwnsRow
    BY OneHolder DEF LeaseHeld, HolderOwnsRow
<1> QED
    BY <1>1, LeasesHold, PTL

\* Then completed and dead are final: no late worker revives or overwrites a job.
THEOREM OutcomesAreFinal ==
    ASSUME LeaseCovers
    PROVE  Spec => FinishedIsFinal
<1> DEFINE Kept == \A j \in JobIds : status[j] \in Terminal => status'[j] = status[j]
<1>1. TypeOK /\ LeaseHeld /\ [Next]_vars => [Kept]_vars
    <2> SUFFICES ASSUME TypeOK, LeaseHeld, Next PROVE Kept
        OBVIOUS
    <2> TableType /\ WorkerType
        BY DEF TypeOK
    <2> USE DEF Active, Waiting, Terminal
    <2>1. ASSUME NEW k \in Keys \cup {NoKey}, NEW limit \in AttemptLimits, Enqueue(k, limit)
          PROVE  Kept
        BY <2>1 DEF Enqueue, TableType
    <2>2. ASSUME NEW w \in Workers, RecoverExpiredLeases(w) PROVE Kept
        BY <2>2 DEF RecoverExpiredLeases, Expired
    <2>3. ASSUME NEW w \in Workers, ClaimNext(w) \/ ClaimFails(w) PROVE Kept
        BY <2>3 DEF ClaimNext, ClaimFails, First, Claimable, Lock, tableVars, TableType
    <2>4. ASSUME NEW w \in Workers, FinalWrite(w) PROVE Kept
        <3>1. status[at[w]] = "running"
            BY <2>4 DEF FinalWrite, Complete, Dead, RetryExhausted, Retry, RetryRefused,
                        Busy, Finishing, LeaseHeld
        <3>2. \A j \in JobIds \ {at[w]} : status'[j] = status[j]
            BY <2>4 DEF FinalWrite, Complete, Dead, RetryExhausted, Retry, RetryRefused,
                        Settle, tableVars, TableType
        <3> QED BY <3>1, <3>2
    <2>5. ASSUME NEW w \in Workers,
                 NothingToClaim(w) \/ ExtendLease(w) \/ ExtendLeaseFails(w)
                 \/ HandlerReturns(w) \/ FinalWriteFails(w) \/ Crash(w) \/ Restart(w)
          PROVE  Kept
        BY <2>5 DEF NothingToClaim, ExtendLease, ExtendLeaseFails, HandlerReturns,
                    FinalWriteFails, Crash, Restart, tableVars
    <2>6. Tick => Kept
        BY DEF Tick
    <2> QED
        BY <2>1, <2>2, <2>3, <2>4, <2>5, <2>6 DEF Next, RunOnce
<1> QED
    BY <1>1, LeasesHold, TypeCorrect, PTL DEF Spec, FinishedIsFinal

-----------------------------------------------------------------------------
\* The table implements the abstract queue.

\* What the refinement mapping says of one job.
LEMMA Holders ==
    /\ \A j \in JobIds : holdersBar[j] = {w \in Workers : Busy(w) /\ at[w] = j}
    /\ \A j \in JobIds : holdersBar'[j] = {w \in Workers : Busy(w)' /\ at'[w] = j}
    /\ \A j \in JobIds : phaseBar[j] = PhaseOf(status[j])
    /\ \A j \in JobIds : phaseBar'[j] = PhaseOf(status'[j])
BY DEF holdersBar, phaseBar, Busy, PhaseOf

\* The phase of a job by the status of its row.
LEMMA Phases ==
    /\ PhaseOf("absent") = "unknown" /\ PhaseOf("running") = "held"
    /\ \A s \in Waiting : PhaseOf(s) = "open"
    /\ \A s \in Terminal : PhaseOf(s) = "settled"
BY DEF PhaseOf, Waiting, Terminal

\* A step that writes no status changes no phase.
LEMMA SamePhase == UNCHANGED status => phaseBar' = phaseBar
BY DEF phaseBar, PhaseOf

\* A step in which nobody takes or leaves a job changes no holders.
LEMMA SameHolders ==
    (\A w \in Workers : (Busy(w)' <=> Busy(w)) /\ (Busy(w) => at'[w] = at[w]))
        => holdersBar' = holdersBar
BY DEF holdersBar

\* Leaving a job removes the worker from its holders and from no others.
LEMMA LeaveHolders ==
    ASSUME WorkerType, NEW w \in Workers, NEW control \in {"idle", "down"}, Leave(w, control)
    PROVE  holdersBar' = [j \in JobIds |-> holdersBar[j] \ {w}]
<1>1. ~Busy(w)' /\ \A v \in Workers \ {w} : (Busy(v)' <=> Busy(v)) /\ at'[v] = at[v]
    BY DEF Leave, WorkerType, Busy, Finishing
<1>2. \A j \in JobIds : {v \in Workers : Busy(v)' /\ at'[v] = j}
                        = {v \in Workers : Busy(v) /\ at[v] = j} \ {w}
    BY <1>1
<1> QED
    BY <1>2, Holders DEF holdersBar

\* The empty table is the empty abstract queue.
LEMMA AbstractInit == Init => Abstract!Init
<1> SUFFICES ASSUME Init PROVE Abstract!Init
    OBVIOUS
<1>1. phaseBar = [j \in JobIds |-> "unknown"]
    BY Phases DEF Init, phaseBar
<1>2. \A w \in Workers : ~Busy(w)
    BY DEF Init, Busy, Finishing
<1>3. holdersBar = [j \in JobIds |-> {}]
    BY <1>2 DEF holdersBar
<1> QED
    BY <1>1, <1>3 DEF Abstract!Init

\* Every step of the table and its workers is a step of the abstract queue or none.
LEMMA AbstractStep ==
    ASSUME LeaseCovers, TypeOK, LeaseHeld, [Next]_vars
    PROVE  [Abstract!Next]_(Abstract!vars)
<1> TableType /\ WorkerType
    BY DEF TypeOK
<1> USE DEF Abstract!vars
<1>1. ASSUME NEW k \in Keys \cup {NoKey}, NEW limit \in AttemptLimits, Enqueue(k, limit)
      PROVE  Abstract!Next
    <2>1. PICK j \in JobIds : status[j] = "absent" /\ status' = [status EXCEPT ![j] = "pending"]
        BY <1>1 DEF Enqueue
    <2>2. phaseBar[j] = "unknown" /\ phaseBar' = [phaseBar EXCEPT ![j] = "open"]
        BY <2>1, Holders, Phases DEF phaseBar, TableType, Waiting
    <2>3. holdersBar' = holdersBar
        BY <1>1, SameHolders DEF Enqueue, workerVars, Busy
    <2> QED
        BY <2>2, <2>3 DEF Abstract!Next, Abstract!Submit
<1>2. ASSUME NEW w \in Workers, RecoverExpiredLeases(w) PROVE Abstract!Next
    <2> DEFINE S == {j \in JobIds : Expired(j)}
    <2>1. \A j \in S : phaseBar[j] = "held" /\ holdersBar[j] = {}
        BY NotExpired, Holders, Phases DEF Expired
    <2>2. phaseBar' = [j \in JobIds |-> IF j \in S THEN "open" ELSE phaseBar[j]]
        BY <1>2, Phases, Holders DEF RecoverExpiredLeases, phaseBar, Waiting
    <2>3. holdersBar' = holdersBar
        BY <1>2, SameHolders DEF RecoverExpiredLeases, Busy, Finishing, WorkerType
    <2> QED
        BY <2>1, <2>2, <2>3 DEF Abstract!Next, Abstract!Reopen
<1>3. ASSUME NEW j \in JobIds, NEW w \in Workers, First(j), Lock(j, w)
      PROVE  /\ phaseBar[j] = "open" /\ holdersBar[j] = {}
             /\ phaseBar' = [phaseBar EXCEPT ![j] = "held"]
    <2>1. status[j] \in Waiting /\ status' = [status EXCEPT ![j] = "running"]
        BY <1>3 DEF First, Claimable, Lock
    <2>2. phaseBar[j] = "open" /\ phaseBar' = [phaseBar EXCEPT ![j] = "held"]
        BY <2>1, Holders, Phases DEF phaseBar, TableType
    <2>3. holdersBar[j] = {}
        BY <2>1, Holders DEF LeaseHeld, Waiting
    <2> QED BY <2>2, <2>3
<1>4. ASSUME NEW w \in Workers, ClaimNext(w) PROVE Abstract!Next
    <2>1. PICK j \in JobIds : First(j) /\ Lock(j, w) /\ at' = [at EXCEPT ![w] = j]
        BY <1>4 DEF ClaimNext
    <2>2. /\ ~Busy(w) /\ Busy(w)' /\ at'[w] = j
          /\ \A v \in Workers \ {w} : (Busy(v)' <=> Busy(v)) /\ at'[v] = at[v]
        BY <1>4, <2>1 DEF ClaimNext, Busy, Finishing, WorkerType
    <2>3. \A i \in JobIds : w \notin holdersBar[i]
        BY <2>2, Holders
    <2>4. \A i \in JobIds : holdersBar'[i] = IF i = j THEN {w} ELSE holdersBar[i]
        <3>1. {v \in Workers : Busy(v)' /\ at'[v] = j} = {w}
            BY <1>3, <2>1, <2>2, Holders
        <3>2. \A i \in JobIds \ {j} : {v \in Workers : Busy(v)' /\ at'[v] = i}
                                     = {v \in Workers : Busy(v) /\ at[v] = i}
            BY <2>2
        <3> QED BY <3>1, <3>2, Holders
    <2>5. holdersBar' = [holdersBar EXCEPT ![j] = {w}]
        BY <2>4 DEF holdersBar
    <2> QED
        BY <1>3, <2>1, <2>3, <2>5 DEF Abstract!Next, Abstract!Take
<1>5. ASSUME NEW w \in Workers, ClaimFails(w) PROVE Abstract!Next \/ UNCHANGED Abstract!vars
    <2>1. holdersBar' = holdersBar
        BY <1>5, SameHolders DEF ClaimFails, Leave, Busy, Finishing, WorkerType
    <2>2. CASE UNCHANGED tableVars
        BY <2>1, <2>2, SamePhase DEF tableVars
    <2>3. CASE \E j \in JobIds : First(j) /\ Lock(j, w)
        BY <1>3, <2>1, <2>3 DEF Abstract!Next, Abstract!TakeUnaware
    <2> QED BY <1>5, <2>2, <2>3 DEF ClaimFails
<1>6. ASSUME NEW w \in Workers, FinalWriteFails(w) \/ RetryRefused(w) \/ Crash(w) PROVE Abstract!Next
    <2>1. phaseBar' = phaseBar
        BY <1>6, SamePhase DEF FinalWriteFails, RetryRefused, Crash, tableVars
    <2>2. holdersBar' = [j \in JobIds |-> holdersBar[j] \ {w}]
        BY <1>6, LeaveHolders DEF FinalWriteFails, RetryRefused, Crash
    <2> QED BY <2>1, <2>2 DEF Abstract!Next, Abstract!Abandon
<1>7. ASSUME NEW w \in Workers, FinalWrite(w), ~RetryRefused(w) PROVE Abstract!Next
    <2>1. PICK outcome \in Terminal \cup {"retry_wait"} :
              Busy(w) /\ Settle(at[w], outcome) /\ Leave(w, "idle")
        BY <1>7 DEF FinalWrite, Complete, Dead, RetryExhausted, Retry, Busy, Finishing, Terminal
    <2>2. at[w] \in JobIds /\ status[at[w]] = "running"
        BY <2>1 DEF LeaseHeld, WorkerType
    <2>3. holdersBar[at[w]] = {w}
        BY <2>1, <2>2, OneHolder, Holders DEF ExclusiveExecution
    <2>4. \A j \in JobIds \ {at[w]} : w \notin holdersBar[j]
        BY Holders
    <2>5. holdersBar' = [holdersBar EXCEPT ![at[w]] = {}]
        <3>1. holdersBar' = [j \in JobIds |-> holdersBar[j] \ {w}]
            BY <2>1, LeaveHolders
        <3>2. \A j \in JobIds : holdersBar[j] \ {w} = IF j = at[w] THEN {} ELSE holdersBar[j]
            BY <2>3, <2>4
        <3>3. holdersBar = [j \in JobIds |-> holdersBar[j]]
            BY DEF holdersBar
        <3> QED BY <2>2, <3>1, <3>2, <3>3
    <2>6. phaseBar[at[w]] = "held"
        BY <2>2, Holders, Phases
    <2>7. status' = [status EXCEPT ![at[w]] = outcome]
        BY <2>1 DEF Settle
    <2>8. \E result \in {"settled", "open"} : phaseBar' = [phaseBar EXCEPT ![at[w]] = result]
        <3>1. PhaseOf(outcome) \in {"settled", "open"}
            BY <2>1, Phases DEF Waiting
        <3>2. phaseBar' = [phaseBar EXCEPT ![at[w]] = PhaseOf(outcome)]
            BY <2>2, <2>7, Holders DEF phaseBar, TableType
        <3> QED BY <3>1, <3>2
    <2> QED
        BY <2>2, <2>3, <2>5, <2>6, <2>8 DEF Abstract!Next, Abstract!Report
<1>8. ASSUME NEW w \in Workers,
             NothingToClaim(w) \/ ExtendLease(w) \/ ExtendLeaseFails(w)
             \/ HandlerReturns(w) \/ Restart(w)
      PROVE  UNCHANGED Abstract!vars
    <2>1. UNCHANGED status
        BY <1>8 DEF NothingToClaim, ExtendLease, ExtendLeaseFails, HandlerReturns, Restart, tableVars
    <2>2. \A v \in Workers : (Busy(v)' <=> Busy(v)) /\ (Busy(v) => at'[v] = at[v])
        <3>1. CASE NothingToClaim(w) \/ Restart(w)
            BY <3>1 DEF NothingToClaim, Restart, Leave, Busy, Finishing, WorkerType
        <3>2. CASE ExtendLease(w) \/ ExtendLeaseFails(w)
            BY <3>2 DEF ExtendLease, ExtendLeaseFails, Busy
        <3>3. CASE HandlerReturns(w)
            BY <3>3 DEF HandlerReturns, Busy, WorkerType
        <3> QED BY <1>8, <3>1, <3>2, <3>3
    <2> QED BY <2>1, <2>2, SamePhase, SameHolders
<1>9. Tick \/ UNCHANGED vars => UNCHANGED Abstract!vars
    BY SamePhase, SameHolders DEF Tick, vars, tableVars, workerVars, Busy
<1> QED
    BY <1>1, <1>2, <1>4, <1>5, <1>6, <1>7, <1>8, <1>9 DEF Next, RunOnce, FinalWrite

\* With a lease that covers its holder, the jobs table with its unfenced writes
\* implements the queue that hands each job to one worker at a time.
THEOREM Refinement ==
    ASSUME LeaseCovers
    PROVE  Spec => ImplementsExclusiveJobs
<1>1. TypeOK /\ LeaseHeld /\ [Next]_vars => [Abstract!Next]_(Abstract!vars)
    BY AbstractStep
<1> QED
    BY <1>1, AbstractInit, LeasesHold, TypeCorrect, PTL
       DEF Spec, ImplementsExclusiveJobs, Abstract!Spec

-----------------------------------------------------------------------------
\* Attempts and locks.

\* A retry is never refused by the index while leases hold: the row it makes
\* active again is active already.
LEMMA NeverRefused ==
    ASSUME TypeOK, LeaseHeld, OneActivePerKey, NEW w \in Workers
    PROVE  ~RetryRefused(w)
BY DEF RetryRefused, KeyFree, LeaseHeld, OneActivePerKey, Busy, Finishing, Active,
       TypeOK, WorkerType

\* Every step leaves an attempt where a claim may follow.
LEMMA AttemptLeftStep ==
    ASSUME LeaseCovers, TypeOK, LeaseHeld, OneActivePerKey, AttemptLeft, [Next]_vars
    PROVE  AttemptLeft'
<1> TableType /\ WorkerType /\ faults \in Nat
    BY DEF TypeOK
<1> USE DEF Waiting
<1>1. ASSUME NEW k \in Keys \cup {NoKey}, NEW limit \in AttemptLimits, Enqueue(k, limit)
      PROVE  AttemptLeft'
    BY <1>1, QueueAssumption DEF Enqueue, workerVars, Busy, AttemptLeft, TableType
<1>2. ASSUME NEW w \in Workers, RecoverExpiredLeases(w) PROVE AttemptLeft'
    <2>1. \A v \in Workers : Busy(v)' <=> Busy(v)
        BY <1>2 DEF RecoverExpiredLeases, Busy, Finishing, WorkerType
    <2>2. \A j \in JobIds : Expired(j) => attempt[j] < maxAttempts[j] + faults
        BY NotExpired DEF AttemptLeft, Expired
    <2> QED
        BY <1>2, <2>1, <2>2 DEF RecoverExpiredLeases, AttemptLeft
<1>3. ASSUME NEW j \in JobIds, NEW w \in Workers, First(j), Lock(j, w)
      PROVE  /\ attempt'[j] <= maxAttempts'[j] + faults /\ status'[j] = "running"
             /\ \A i \in JobIds \ {j} : /\ attempt'[i] = attempt[i]
                                        /\ maxAttempts'[i] = maxAttempts[i]
                                        /\ status'[i] = status[i]
    BY <1>3 DEF First, Claimable, Lock, AttemptLeft, TableType
<1>4. ASSUME NEW w \in Workers, ClaimNext(w) PROVE AttemptLeft'
    <2>1. PICK j \in JobIds : First(j) /\ Lock(j, w) /\ at' = [at EXCEPT ![w] = j]
        BY <1>4 DEF ClaimNext
    <2>2. /\ ~Busy(w) /\ Busy(w)' /\ at'[w] = j /\ faults' = faults
          /\ \A v \in Workers \ {w} : (Busy(v)' <=> Busy(v)) /\ at'[v] = at[v]
        BY <1>4, <2>1 DEF ClaimNext, Busy, Finishing, WorkerType
    <2> QED
        BY <1>3, <2>1, <2>2 DEF AttemptLeft
<1>5. ASSUME NEW w \in Workers, ClaimFails(w) PROVE AttemptLeft'
    <2>1. faults' = faults + 1 /\ \A v \in Workers : (Busy(v)' <=> Busy(v)) /\ (Busy(v) => at'[v] = at[v])
        BY <1>5 DEF ClaimFails, Fault, Leave, Busy, Finishing, WorkerType
    <2>2. CASE UNCHANGED tableVars
        BY <2>1, <2>2 DEF tableVars, AttemptLeft, TableType
    <2>3. CASE \E j \in JobIds : First(j) /\ Lock(j, w)
        <3>1. PICK j \in JobIds : First(j) /\ Lock(j, w)
            BY <2>3
        <3>2. attempt' \in [JobIds -> Nat] /\ maxAttempts' \in [JobIds -> Nat]
            BY <3>1, LockTypes DEF TableType
        <3> QED BY <1>3, <2>1, <3>1, <3>2 DEF AttemptLeft, TableType
    <2> QED BY <1>5, <2>2, <2>3 DEF ClaimFails
<1>6. ASSUME NEW w \in Workers, FinalWriteFails(w) \/ Crash(w) PROVE AttemptLeft'
    <2>1. faults' = faults + 1 /\ UNCHANGED tableVars
        BY <1>6 DEF FinalWriteFails, Crash, Fault
    <2> QED BY <2>1 DEF AttemptLeft, tableVars, TableType
<1>7. ASSUME NEW w \in Workers, FinalWrite(w) PROVE AttemptLeft'
    <2>1. ~RetryRefused(w)
        BY NeverRefused
    <2>2. Busy(w) /\ Leave(w, "idle") /\ faults' = faults
        BY <1>7, <2>1 DEF FinalWrite, Complete, Dead, RetryExhausted, Retry, Busy, Finishing
    <2>3. \A v \in Workers \ {w} : (Busy(v)' <=> Busy(v)) /\ at'[v] = at[v]
        BY <2>2 DEF Leave, Busy, WorkerType
    <2>4. at[w] \in JobIds /\ attempt' = attempt /\ maxAttempts' = maxAttempts
        BY <1>7, <2>1, <2>2 DEF FinalWrite, Complete, Dead, RetryExhausted, Retry, Settle, WorkerType
    <2>5. \A j \in JobIds \ {at[w]} : status'[j] = status[j]
        BY <1>7, <2>1 DEF FinalWrite, Complete, Dead, RetryExhausted, Retry, Settle, TableType
    <2>6. \/ status'[at[w]] \in Terminal
          \/ status'[at[w]] = "retry_wait" /\ attempt[at[w]] < maxAttempts[at[w]]
        BY <1>7, <2>1, <2>4 DEF FinalWrite, Complete, Dead, RetryExhausted, Retry, Settle,
                                Exhausted, Terminal, TableType
    <2> QED
        BY <2>2, <2>3, <2>4, <2>5, <2>6 DEF AttemptLeft, Terminal, TableType
<1>8. ASSUME NEW w \in Workers,
             NothingToClaim(w) \/ ExtendLease(w) \/ ExtendLeaseFails(w)
             \/ HandlerReturns(w) \/ Restart(w)
      PROVE  AttemptLeft'
    <2>1. UNCHANGED <<status, attempt, maxAttempts, faults>>
        BY <1>8 DEF NothingToClaim, ExtendLease, ExtendLeaseFails, HandlerReturns, Restart, tableVars
    <2>2. \A v \in Workers : (Busy(v)' <=> Busy(v)) /\ (Busy(v) => at'[v] = at[v])
        <3>1. CASE NothingToClaim(w) \/ Restart(w)
            BY <3>1 DEF NothingToClaim, Restart, Leave, Busy, Finishing, WorkerType
        <3>2. CASE ExtendLease(w) \/ ExtendLeaseFails(w)
            BY <3>2 DEF ExtendLease, ExtendLeaseFails, Busy
        <3>3. CASE HandlerReturns(w)
            BY <3>3 DEF HandlerReturns, Busy, WorkerType
        <3> QED BY <1>8, <3>1, <3>2, <3>3
    <2> QED BY <2>1, <2>2 DEF AttemptLeft
<1>9. CASE Tick \/ UNCHANGED vars
    BY <1>9 DEF Tick, vars, tableVars, workerVars, AttemptLeft, Busy
<1> QED
    BY <1>1, <1>2, <1>4, <1>5, <1>6, <1>7, <1>8, <1>9 DEF Next, RunOnce

\* While leases hold, a job is run at most max_attempts times plus once for every
\* crash or failed call.
THEOREM AttemptBudget ==
    ASSUME LeaseCovers
    PROVE  Spec => []AttemptsWithinBudget
<1>1. Init => AttemptLeft
    BY DEF Init, AttemptLeft, Waiting
<1>2. TypeOK /\ LeaseHeld /\ OneActivePerKey /\ AttemptLeft /\ [Next]_vars => AttemptLeft'
    BY AttemptLeftStep
<1>3. AttemptLeft => AttemptsWithinBudget
    BY DEF AttemptLeft, AttemptsWithinBudget
<1> QED
    BY <1>1, <1>2, <1>3, TypeCorrect, LeasesHold, UniqueActiveKey, PTL DEF Spec

\* A row has a lock and a lease exactly while it is running, whatever the timing:
\* neither a late heartbeat nor a late outcome leaves a lock on another row.
THEOREM LocksOnRunningRows == Spec => []LockedIffRunning
<1>1. Init => LockedIffRunning
    BY DEF Init, LockedIffRunning
<1>2. TypeOK /\ LockedIffRunning /\ [Next]_vars => LockedIffRunning'
    <2> SUFFICES ASSUME TypeOK, LockedIffRunning, [Next]_vars PROVE LockedIffRunning'
        OBVIOUS
    <2> TableType /\ WorkerType
        BY DEF TypeOK
    <2>1. ASSUME NEW k \in Keys \cup {NoKey}, NEW limit \in AttemptLimits, Enqueue(k, limit)
          PROVE  LockedIffRunning'
        BY <2>1 DEF Enqueue, LockedIffRunning, TableType
    <2>2. ASSUME NEW w \in Workers, RecoverExpiredLeases(w) PROVE LockedIffRunning'
        BY <2>2 DEF RecoverExpiredLeases, Expired, LockedIffRunning
    <2>3. ASSUME NEW j \in JobIds, NEW w \in Workers, Lock(j, w) PROVE LockedIffRunning'
        BY <2>3, QueueAssumption DEF Lock, LockedIffRunning, TableType
    <2>4. ASSUME NEW w \in Workers, ClaimNext(w) \/ ClaimFails(w) PROVE LockedIffRunning'
        <3>1. CASE UNCHANGED tableVars
            BY <3>1 DEF tableVars, LockedIffRunning
        <3> QED BY <2>3, <2>4, <3>1 DEF ClaimNext, ClaimFails
    <2>5. ASSUME NEW w \in Workers, ExtendLease(w) PROVE LockedIffRunning'
        BY <2>5 DEF ExtendLease, LockedIffRunning, TableType
    <2>6. ASSUME NEW w \in Workers, FinalWrite(w) PROVE LockedIffRunning'
        <3>1. at[w] \in JobIds
            BY <2>6 DEF FinalWrite, Complete, Dead, RetryExhausted, Retry, RetryRefused,
                        WorkerType, Busy, Finishing
        <3>2. CASE RetryRefused(w)
            BY <3>2 DEF RetryRefused, tableVars, LockedIffRunning
        <3>3. ASSUME NEW outcome \in {"completed", "dead", "retry_wait"}, Settle(at[w], outcome)
              PROVE  LockedIffRunning'
            BY <3>1, <3>3 DEF Settle, LockedIffRunning, TableType
        <3> QED
            BY <2>6, <3>2, <3>3 DEF FinalWrite, Complete, Dead, RetryExhausted, Retry
    <2>7. ASSUME NEW w \in Workers,
                 NothingToClaim(w) \/ ExtendLeaseFails(w) \/ HandlerReturns(w)
                 \/ FinalWriteFails(w) \/ Crash(w) \/ Restart(w)
          PROVE  LockedIffRunning'
        BY <2>7 DEF NothingToClaim, ExtendLeaseFails, HandlerReturns, FinalWriteFails, Crash,
                    Restart, tableVars, LockedIffRunning
    <2>8. CASE Tick
        BY <2>8 DEF Tick, LockedIffRunning, TableType
    <2>9. CASE UNCHANGED vars
        BY <2>9 DEF vars, tableVars, LockedIffRunning
    <2> QED
        BY <2>1, <2>2, <2>4, <2>5, <2>6, <2>7, <2>8, <2>9 DEF Next, RunOnce
<1> QED
    BY <1>1, <1>2, TypeCorrect, PTL DEF Spec
=============================================================================
