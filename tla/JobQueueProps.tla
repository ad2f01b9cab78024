--------------------------- MODULE JobQueueProps ---------------------------
(***************************************************************************)
(* What the jobs table and its workers must get right.                     *)
(***************************************************************************)
EXTENDS JobQueue

\* A worker that is executing a job holds its lease: one heartbeat in time is
\* enough, and the time without one plus the time of the final write is covered
\* by the lease.
LeaseCovers == /\ Interval <= MaxSilence
               /\ MaxSilence + FinishBound <= Lease

TableType == /\ status \in [JobIds -> Status]
             /\ key \in [JobIds -> Keys \cup {NoKey}]
             /\ attempt \in [JobIds -> Nat]
             /\ maxAttempts \in [JobIds -> Nat]
             /\ due \in [JobIds -> Int]
             /\ lockedBy \in [JobIds -> Workers \cup {NoWorker}]
             /\ leaseLeft \in [JobIds -> Int]

WorkerType == /\ pc \in [Workers -> Control]
              /\ at \in [Workers -> JobIds \cup {0}]
              /\ \A w \in Workers : Busy(w) => at[w] \in JobIds
              /\ timer \in [Workers -> Nat]
              /\ silence \in [Workers -> Nat]

\* The columns and the processes hold values of their types, and a worker that
\* is busy is busy with a row of the table.
TypeOK == TableType /\ WorkerType /\ faults \in Nat

\* Two workers never execute the same job at the same time: what keepLeaseAlive
\* is for (worker.go:101-104).
ExclusiveExecution ==
    \A v, w \in Workers : v # w /\ Busy(v) /\ Busy(w) => at[v] # at[w]

\* The worker that executes a job is the one its row names, so the final writes
\* of CompleteWithResult, Retry and Dead, which select the row by id alone, only
\* ever reach a row their worker holds.
HolderOwnsRow ==
    \A w \in Workers : Busy(w) =>
        /\ status[at[w]] = "running"
        /\ lockedBy[at[w]] = w

\* Why: the time a lease still runs and the time since it was granted add up to
\* the lease, and neither the handler nor the final write outlives it.
LeaseHeld ==
    \A w \in Workers : Busy(w) =>
        /\ status[at[w]] = "running"
        /\ lockedBy[at[w]] = w
        /\ leaseLeft[at[w]] + silence[w] = Lease
        /\ pc[w] = "handling" => silence[w] + timer[w] <= MaxSilence
        /\ pc[w] \in Finishing => silence[w] + timer[w] <= MaxSilence + FinishBound

\* A completed or dead job is never run again nor overwritten by another outcome.
FinishedIsFinal ==
    [][\A j \in JobIds : status[j] \in Terminal => status'[j] = status[j]]_vars

\* At most one active row per deduplication key, whatever recovers or retries it.
OneActivePerKey ==
    \A i, j \in JobIds :
        /\ status[i] \in Active /\ status[j] \in Active
        /\ key[i] = key[j] /\ key[i] # NoKey
        => i = j

\* Retry stops a job at max_attempts; only a crash or a failed call, whose job
\* RecoverExpiredLeases makes due again without looking at its attempts, adds one.
AttemptsWithinBudget ==
    \A j \in JobIds : attempt[j] <= maxAttempts[j] + faults

\* Why: an attempt is left wherever the job may be claimed again, which is while
\* it waits and while it is running without a worker.
AttemptLeft ==
    \A j \in JobIds :
        /\ attempt[j] <= maxAttempts[j] + faults
        /\ status[j] = "absent" => attempt[j] = 0
        /\ \/ status[j] \in Waiting
           \/ status[j] = "running" /\ \A w \in Workers : Busy(w) => at[w] # j
           => attempt[j] < maxAttempts[j] + faults

\* locked_by and lease_expires_at are set exactly on running rows: a running row
\* without a lease would never be recovered.
LockedIffRunning ==
    \A j \in JobIds : /\ (lockedBy[j] # NoWorker) <=> (status[j] = "running")
                      /\ status[j] # "running" => leaseLeft[j] = 0

\* Every job that is enqueued ends completed or dead, through crashes, lost
\* claims, lost final writes and retries.
EveryJobSettles ==
    \A j \in JobIds : (status[j] \in Active) ~> (status[j] \in Terminal)

-----------------------------------------------------------------------------
\* The abstract queue: a job's phase is its status, its holders are the workers
\* inside RunOnce with it.
PhaseOf(st) == CASE st = "absent"   -> "unknown"
                 [] st \in Waiting  -> "open"
                 [] st = "running"  -> "held"
                 [] st \in Terminal -> "settled"

phaseBar   == [j \in JobIds |-> PhaseOf(status[j])]
holdersBar == [j \in JobIds |-> {w \in Workers : Busy(w) /\ at[w] = j}]

Abstract == INSTANCE ExclusiveJobs
                WITH Jobs <- JobIds, phase <- phaseBar, holders <- holdersBar

\* With a lease that covers it, the table of rows, leases and unfenced writes
\* implements the queue that hands a job to one worker at a time.
ImplementsExclusiveJobs == Abstract!Spec
=============================================================================
