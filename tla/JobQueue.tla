------------------------------ MODULE JobQueue ------------------------------
(***************************************************************************)
(* The jobs table (internal/storage/postgres/jobs.go) and the workers that *)
(* run its jobs (internal/jobs/worker.go).                                 *)
(*                                                                         *)
(* One statement of the repository is one atomic step: PostgreSQL locks    *)
(* the rows it writes.  A worker is a process that loops over RunOnce:     *)
(* recover expired leases, claim one job, run its handler while a          *)
(* goroutine extends the lease, stop that goroutine, write the outcome.    *)
(*                                                                         *)
(* Time is discrete and relative: a row holds how long its lease still     *)
(* runs and how long it still has to wait, and Tick lets one unit pass.    *)
(* The wall clocks of the workers and of the database are taken to agree.  *)
(***************************************************************************)
EXTENDS Integers

CONSTANTS
    Workers,        \* worker identities (WORKER_ID, unique per process)
    NoWorker,       \* SQL NULL in locked_by
    Keys,           \* deduplication keys
    NoKey,          \* SQL NULL in deduplication_key
    MaxJobs,        \* bound: rows ever inserted
    AttemptLimits,  \* the max_attempts values callers enqueue with
    Lease,          \* the lease, in ticks (5 minutes in the code)
    Backoff,        \* the delays a retry may wait, in ticks (1 minute to 72 in the code)
    MaxSilence,     \* longest time a handler goes on without a heartbeat reaching the database
    FinishBound,    \* longest time between stopping the heartbeat and the final write
    MaxFaults,      \* bound: crashes and failed database calls
    Horizon         \* bound: how long the age of a due job is told apart

ASSUME QueueAssumption ==
    /\ NoWorker \notin Workers
    /\ NoKey \notin Keys
    /\ MaxJobs \in Nat
    /\ AttemptLimits \subseteq Nat \ {0}
    /\ Lease \in Nat /\ Lease >= 3
    /\ Backoff \subseteq Nat
    /\ MaxSilence \in Nat
    /\ FinishBound \in Nat
    /\ MaxFaults \in Nat
    /\ Horizon \in Nat

VARIABLES
    \* columns of the jobs table, by job id
    status, key, attempt, maxAttempts,
    due,        \* available_at - now()
    lockedBy,
    leaseLeft,  \* lease_expires_at - now(); -1 once it is in the past
    \* what each worker process is doing
    pc,
    at,         \* the id of the job it runs, 0 for none
    timer,      \* handling: time to the next heartbeat; finishing: time left to write
    silence,    \* time since the database last granted it the lease
    faults      \* crashes and failed calls so far

tableVars  == <<status, key, attempt, maxAttempts, due, lockedBy, leaseLeft>>
workerVars == <<pc, at, timer, silence>>
vars       == <<tableVars, workerVars, faults>>

JobIds == 1..MaxJobs

\* keepLeaseAlive ticks three times per lease.
Interval == Lease \div 3

Waiting  == {"pending", "retry_wait"}
Active   == Waiting \cup {"running"}
Terminal == {"completed", "dead"}
Status   == Active \cup Terminal \cup {"absent"}

\* A worker that has stopped the heartbeat is about to write one of three outcomes.
Finishing == {"completing", "killing", "retrying"}
Control   == {"idle", "claiming", "handling", "down"} \cup Finishing

Busy(w) == pc[w] \in {"handling"} \cup Finishing

Init == /\ status      = [j \in JobIds |-> "absent"]
        /\ key         = [j \in JobIds |-> NoKey]
        /\ attempt     = [j \in JobIds |-> 0]
        /\ maxAttempts = [j \in JobIds |-> 0]
        /\ due         = [j \in JobIds |-> 0]
        /\ lockedBy    = [j \in JobIds |-> NoWorker]
        /\ leaseLeft   = [j \in JobIds |-> 0]
        /\ pc          = [w \in Workers |-> "idle"]
        /\ at          = [w \in Workers |-> 0]
        /\ timer       = [w \in Workers |-> 0]
        /\ silence     = [w \in Workers |-> 0]
        /\ faults      = 0

-----------------------------------------------------------------------------
\* Statements on the jobs table.

\* A variant whose index leaves out the rows that wait for a retry.
KeyFreeOfRetries(k, j) == k = NoKey \/ \A i \in JobIds \ {j} :
                              ~(status[i] \in {"pending", "running"} /\ key[i] = k)

\* The partial unique index on deduplication_key lets row j be active with key k.
KeyFree(k, j) == k = NoKey \/ \A i \in JobIds \ {j} :
                                 ~(status[i] \in Active /\ key[i] = k)

\* A conflicting insert returns the active row and changes nothing, so only the
\* insert that creates a row is a step.
Enqueue(k, limit) ==
    \E j \in JobIds :
        /\ status[j] = "absent"
        /\ \A i \in JobIds : i < j => status[i] # "absent"
        /\ KeyFree(k, j)
        /\ status'      = [status EXCEPT ![j] = "pending"]
        /\ key'         = [key EXCEPT ![j] = k]
        /\ maxAttempts' = [maxAttempts EXCEPT ![j] = limit]
        /\ UNCHANGED <<attempt, due, lockedBy, leaseLeft, workerVars, faults>>

\* Variants that take a lease for expired in its last instant, and that never
\* recover a job with no attempt left.
ExpiredEarly(j) == status[j] = "running" /\ leaseLeft[j] <= 0
ExpiredWithinBudget(j) == /\ status[j] = "running" /\ leaseLeft[j] < 0
                          /\ attempt[j] < maxAttempts[j]

Expired(j) == status[j] = "running" /\ leaseLeft[j] < 0

\* A variant that only leaves out the running rows.
ClaimableUnlessRunning(j) == status[j] \notin {"running", "absent"} /\ due[j] <= 0

Claimable(j) == status[j] \in Waiting /\ due[j] <= 0

\* ORDER BY available_at, created_at; jobs due for Horizon or longer are tied.
Before(j, i) == \/ due[j] < due[i]
                \/ due[j] = due[i] /\ (j <= i \/ due[j] = -Horizon)

First(j) == Claimable(j) /\ \A i \in JobIds : Claimable(i) => Before(j, i)

Lock(j, w) == /\ status'    = [status EXCEPT ![j] = "running"]
              /\ attempt'   = [attempt EXCEPT ![j] = @ + 1]
              /\ lockedBy'  = [lockedBy EXCEPT ![j] = w]
              /\ leaseLeft' = [leaseLeft EXCEPT ![j] = Lease]
              /\ UNCHANGED <<key, maxAttempts, due>>

\* CompleteWithResult, Dead and Retry clear the lock of the row with that id.
Settle(j, outcome) == /\ status'    = [status EXCEPT ![j] = outcome]
                      /\ lockedBy'  = [lockedBy EXCEPT ![j] = NoWorker]
                      /\ leaseLeft' = [leaseLeft EXCEPT ![j] = 0]
                      /\ UNCHANGED <<key, attempt, maxAttempts>>

\* A variant that counts the attempts before the claim.
ExhaustedLate(j) == attempt[j] > maxAttempts[j]

\* Attempts are counted when the job is claimed.
Exhausted(j) == attempt[j] >= maxAttempts[j]

-----------------------------------------------------------------------------
\* Worker.RunOnce.

Fault == faults < MaxFaults /\ faults' = faults + 1

Leave(w, control) == /\ pc'      = [pc EXCEPT ![w] = control]
                     /\ at'      = [at EXCEPT ![w] = 0]
                     /\ timer'   = [timer EXCEPT ![w] = 0]
                     /\ silence' = [silence EXCEPT ![w] = 0]

\* A variant that takes back every running job, its lease expired or not.
RecoverEverything(w) ==
    /\ pc[w] = "idle"
    /\ status'    = [j \in JobIds |-> IF status[j] = "running" THEN "retry_wait" ELSE status[j]]
    /\ lockedBy'  = [j \in JobIds |-> NoWorker]
    /\ leaseLeft' = [j \in JobIds |-> 0]
    /\ pc'        = [pc EXCEPT ![w] = "claiming"]
    /\ UNCHANGED <<key, attempt, maxAttempts, due, at, timer, silence, faults>>

RecoverExpiredLeases(w) ==
    /\ pc[w] = "idle"
    /\ status'    = [j \in JobIds |-> IF Expired(j) THEN "retry_wait" ELSE status[j]]
    /\ due'       = [j \in JobIds |-> IF Expired(j) THEN 0 ELSE due[j]]
    /\ lockedBy'  = [j \in JobIds |-> IF Expired(j) THEN NoWorker ELSE lockedBy[j]]
    /\ leaseLeft' = [j \in JobIds |-> IF Expired(j) THEN 0 ELSE leaseLeft[j]]
    /\ pc'        = [pc EXCEPT ![w] = "claiming"]
    /\ UNCHANGED <<key, attempt, maxAttempts, at, timer, silence, faults>>

ClaimNext(w) ==
    /\ pc[w] = "claiming"
    /\ \E j \in JobIds : First(j) /\ Lock(j, w) /\ at' = [at EXCEPT ![w] = j]
    /\ pc'      = [pc EXCEPT ![w] = "handling"]
    /\ timer'   = [timer EXCEPT ![w] = Interval]
    /\ silence' = [silence EXCEPT ![w] = 0]
    /\ UNCHANGED faults

NothingToClaim(w) ==
    /\ pc[w] = "claiming"
    /\ \A j \in JobIds : ~Claimable(j)
    /\ Leave(w, "idle")
    /\ UNCHANGED <<tableVars, faults>>

\* A call of ClaimNext fails: nothing is written, or the commit is done and its
\* answer is lost.
ClaimFails(w) ==
    /\ pc[w] = "claiming"
    /\ Fault
    /\ \/ UNCHANGED tableVars
       \/ \E j \in JobIds : First(j) /\ Lock(j, w)
    /\ Leave(w, "idle")

HeartbeatDue(w) == pc[w] = "handling" /\ timer[w] = 0

\* The update matches no row when another worker holds the job by now; the
\* worker does not look at how many rows it changed.
ExtendLease(w) ==
    /\ HeartbeatDue(w)
    /\ leaseLeft' = [leaseLeft EXCEPT ![at[w]] =
                        IF lockedBy[at[w]] = w /\ status[at[w]] = "running" THEN Lease ELSE @]
    /\ timer'   = [timer EXCEPT ![w] = Interval]
    /\ silence' = [silence EXCEPT ![w] = 0]
    /\ UNCHANGED <<status, key, attempt, maxAttempts, due, lockedBy, pc, at, faults>>

\* The error is logged and the ticker goes on.
ExtendLeaseFails(w) ==
    /\ HeartbeatDue(w)
    /\ silence[w] + Interval <= MaxSilence
    /\ timer' = [timer EXCEPT ![w] = Interval]
    /\ UNCHANGED <<tableVars, pc, at, silence, faults>>

\* The handler returns nil, an error permanentError recognises, or another one;
\* stopHeartbeat returns before the outcome is written.
HandlerReturns(w) ==
    /\ pc[w] = "handling"
    /\ \E next \in Finishing : pc' = [pc EXCEPT ![w] = next]
    /\ timer' = [timer EXCEPT ![w] = FinishBound]
    /\ UNCHANGED <<tableVars, at, silence, faults>>

Complete(w) ==
    /\ pc[w] = "completing"
    /\ Settle(at[w], "completed")
    /\ Leave(w, "idle")
    /\ UNCHANGED <<due, faults>>

Dead(w) ==
    /\ pc[w] = "killing"
    /\ Settle(at[w], "dead")
    /\ Leave(w, "idle")
    /\ UNCHANGED <<due, faults>>

RetryExhausted(w) ==
    /\ pc[w] = "retrying" /\ Exhausted(at[w])
    /\ Settle(at[w], "dead")
    /\ Leave(w, "idle")
    /\ UNCHANGED <<due, faults>>

Retry(w) ==
    /\ pc[w] = "retrying" /\ ~Exhausted(at[w])
    /\ KeyFree(key[at[w]], at[w])
    /\ Settle(at[w], "retry_wait")
    /\ \E delay \in Backoff : due' = [due EXCEPT ![at[w]] = delay]
    /\ Leave(w, "idle")
    /\ UNCHANGED faults

\* The unique index refuses a retry that would make a second row active with
\* the key: Retry returns the error and writes nothing.
RetryRefused(w) ==
    /\ pc[w] = "retrying" /\ ~Exhausted(at[w])
    /\ ~KeyFree(key[at[w]], at[w])
    /\ Leave(w, "idle")
    /\ UNCHANGED <<tableVars, faults>>

\* The final write fails: RunOnce returns its error and the row stays running.
FinalWriteFails(w) ==
    /\ pc[w] \in Finishing
    /\ Fault
    /\ Leave(w, "idle")
    /\ UNCHANGED tableVars

\* The process dies, or is told to stop: its context is cancelled and every
\* later call to the database fails.  The container is then started again.
Crash(w) ==
    /\ pc[w] # "down"
    /\ Fault
    /\ Leave(w, "down")
    /\ UNCHANGED tableVars

Restart(w) ==
    /\ pc[w] = "down"
    /\ Leave(w, "idle")
    /\ UNCHANGED <<tableVars, faults>>

-----------------------------------------------------------------------------
\* Time.

\* The ticker goroutine and the final write are never delayed past their time;
\* a worker that would be is one whose heartbeats fail (MaxSilence).
Punctual(w) == Busy(w) => timer[w] > 0

Tick ==
    /\ \A w \in Workers : Punctual(w)
    /\ leaseLeft' = [j \in JobIds |->
                        IF status[j] = "running" /\ leaseLeft[j] >= 0 THEN leaseLeft[j] - 1
                                                                      ELSE leaseLeft[j]]
    /\ due' = [j \in JobIds |->
                  IF status[j] \in Waiting /\ due[j] > -Horizon THEN due[j] - 1 ELSE due[j]]
    /\ timer'   = [w \in Workers |-> IF Busy(w) THEN timer[w] - 1 ELSE timer[w]]
    /\ silence' = [w \in Workers |-> IF Busy(w) THEN silence[w] + 1 ELSE silence[w]]
    /\ UNCHANGED <<status, key, attempt, maxAttempts, lockedBy, pc, at, faults>>

-----------------------------------------------------------------------------
FinalWrite(w) == \/ Complete(w) \/ Dead(w)
                 \/ RetryExhausted(w) \/ Retry(w) \/ RetryRefused(w)

RunOnce(w) == \/ RecoverExpiredLeases(w)
              \/ ClaimNext(w) \/ NothingToClaim(w) \/ ClaimFails(w)
              \/ ExtendLease(w) \/ ExtendLeaseFails(w)
              \/ HandlerReturns(w)
              \/ FinalWrite(w) \/ FinalWriteFails(w)

Next == \/ \E k \in Keys \cup {NoKey}, limit \in AttemptLimits : Enqueue(k, limit)
        \/ \E w \in Workers : RunOnce(w) \/ Crash(w) \/ Restart(w)
        \/ Tick

\* A worker's loop goes on, its handler returns (every outgoing call has a
\* timeout), its container is restarted, and time passes.
Fairness == /\ WF_vars(Tick)
            /\ \A w \in Workers : /\ WF_vars(RunOnce(w))
                                  /\ WF_vars(HandlerReturns(w))
                                  /\ WF_vars(Restart(w))

Spec     == Init /\ [][Next]_vars
FairSpec == Spec /\ Fairness
=============================================================================
