------------------------------ MODULE Scheduler ------------------------------
(***************************************************************************)
(* Daily schedules on top of the job queue: the loop of                    *)
(* cmd/summary-worker, EnqueueDue and RunSchedule                          *)
(* (internal/scheduler/service.go).  A worker lists the schedules, inserts *)
(* a scheduled_pipeline job for each that is due, and then runs jobs until *)
(* none is due.  The queue is the one of ExclusiveJobs, which the jobs     *)
(* table implements while leases cover their holders.                      *)
(*                                                                         *)
(* Every schedule has its own local day, for it has its own time zone.     *)
(***************************************************************************)
EXTENDS Integers, FiniteSets

CONSTANTS
    Workers,
    Schedules,
    FailingSteps,   \* the steps of a pipeline that may return an error
    Errors,         \* the errors they return: temporary, permanent
    MaxAttempts,    \* max_attempts of a pipeline job (4 in the code)
    MaxDays,        \* bound: local days
    MaxJobs,        \* bound: jobs ever inserted
    MaxManual,      \* bound: manual runs among them
    MaxFaults       \* bound: crashes and failed database calls

Steps == {"collect", "summarize", "export"}

ASSUME SchedulerAssumption ==
    /\ FailingSteps \subseteq Steps
    /\ Errors \subseteq {"temporary", "permanent"}
    /\ MaxAttempts \in Nat \ {0}
    /\ MaxDays \in Nat \ {0}
    /\ MaxJobs \in Nat
    /\ MaxManual \in Nat
    /\ MaxFaults \in Nat

VARIABLES
    \* the local time of each schedule
    today,
    open,       \* it is past the daily time and outside the quiet hours
    overrun,    \* days that began while a run of the schedule was listed or unfinished
    \* the schedules table
    enabled,
    lastRun,    \* the local day of last_run_at, 0 for none
    \* the queue, and what the jobs carry
    phase, holders,
    schedule,   \* in the payload
    day,        \* in the deduplication key; 0 in the key of a manual run, which is never taken
    attempt,
    resting,    \* open jobs whose available_at is in the future
    outcome,    \* completed or dead, once the job is settled
    \* what the pipelines work on
    fresh,      \* the source group has messages no summary has
    \* each worker
    pc,
    due,        \* what EnqueueDue has still to insert: schedules with their day
    at,         \* the job it runs, 0 for none
    result,     \* what its pipeline returns
    faults

timeVars  == <<today, open, overrun>>
tableVars == <<enabled, lastRun>>
queueVars == <<phase, holders>>
jobVars   == <<schedule, day, attempt, resting, outcome>>
loopVars  == <<pc, due, at, result>>
vars == <<timeVars, tableVars, queueVars, jobVars, fresh, loopVars, faults>>

JobIds == 1..MaxJobs
Days   == 1..MaxDays

Queue == INSTANCE ExclusiveJobs WITH Jobs <- JobIds

Running == {"collect", "summarize", "export", "mark", "report"}
Control == {"waiting", "enqueueing", "draining"} \cup Running
Results == {"ok", "temporary", "permanent"}

Active(j) == phase[j] \in {"open", "held"}

Init == /\ today = [s \in Schedules |-> 1]
        /\ open = [s \in Schedules |-> FALSE]
        /\ overrun = {}
        /\ enabled = [s \in Schedules |-> TRUE]
        /\ lastRun = [s \in Schedules |-> 0]
        /\ Queue!Init
        /\ schedule \in [JobIds -> Schedules]
        /\ \A i, j \in JobIds : schedule[i] = schedule[j]
        /\ day = [j \in JobIds |-> 0]
        /\ attempt = [j \in JobIds |-> 0]
        /\ resting = {}
        /\ outcome = [j \in JobIds |-> "none"]
        /\ fresh = [s \in Schedules |-> TRUE]
        /\ pc = [w \in Workers |-> "waiting"]
        /\ due = [w \in Workers |-> {}]
        /\ at = [w \in Workers |-> 0]
        /\ result = [w \in Workers |-> "ok"]
        /\ faults = 0

-----------------------------------------------------------------------------
\* Time, the source group and the owner.

\* A job of the schedule is not settled, or about to be inserted.
Unfinished(s) == \/ \E j \in JobIds : Active(j) /\ schedule[j] = s
                 \/ \E w \in Workers : \E x \in due[w] : x[1] = s

Midnight(s) ==
    /\ today[s] < MaxDays
    /\ today' = [today EXCEPT ![s] = @ + 1]
    /\ open'  = [open EXCEPT ![s] = FALSE]
    /\ overrun' = IF Unfinished(s) THEN overrun \cup {<<s, today[s] + 1>>} ELSE overrun
    /\ UNCHANGED <<tableVars, queueVars, jobVars, fresh, loopVars, faults>>

\* The daily time is reached, or quiet hours begin or end.
TimePasses(s) ==
    /\ open' = [open EXCEPT ![s] = ~@]
    /\ UNCHANGED <<today, overrun, tableVars, queueVars, jobVars, fresh, loopVars, faults>>

MessagesArrive(s) ==
    /\ ~fresh[s]
    /\ fresh' = [fresh EXCEPT ![s] = TRUE]
    /\ UNCHANGED <<timeVars, tableVars, queueVars, jobVars, loopVars, faults>>

SetEnabled(s) ==
    /\ enabled' = [enabled EXCEPT ![s] = ~@]
    /\ UNCHANGED <<timeVars, lastRun, queueVars, jobVars, fresh, loopVars, faults>>

NextId(j) == phase[j] = "unknown" /\ \A i \in JobIds : i < j => phase[i] # "unknown"

Insert(j, s, d) == /\ NextId(j)
                   /\ Queue!Submit(j)
                   /\ schedule' = [schedule EXCEPT ![j] = s]
                   /\ day' = [day EXCEPT ![j] = d]
                   /\ UNCHANGED <<attempt, resting, outcome>>

\* schedules.Service.Run: the key holds the second, so it is free.
RunNow(s) ==
    /\ Cardinality({j \in JobIds : phase[j] # "unknown" /\ day[j] = 0}) < MaxManual
    /\ \E j \in JobIds : Insert(j, s, 0)
    /\ UNCHANGED <<timeVars, tableVars, fresh, loopVars, faults>>

-----------------------------------------------------------------------------
\* EnqueueDue.

Fault == faults < MaxFaults /\ faults' = faults + 1

\* Variants that forget the last run, and that look for one yesterday.
IsDueAlways(s) == enabled[s] /\ open[s]
IsDueLater(s)  == enabled[s] /\ open[s] /\ lastRun[s] < today[s] - 1

\* The rest of IsDue is in open.
IsDue(s) == enabled[s] /\ open[s] /\ lastRun[s] # today[s]

\* The table is listed and the clock read; the jobs are inserted afterwards.
ListDue(w) ==
    /\ pc[w] = "waiting"
    /\ due' = [due EXCEPT ![w] = {<<s, today[s]>> : s \in {z \in Schedules : IsDue(z)}}]
    /\ pc'  = [pc EXCEPT ![w] = "enqueueing"]
    /\ UNCHANGED <<timeVars, tableVars, queueVars, jobVars, fresh, at, result, faults>>

\* A variant that only finds jobs nobody runs yet.
KeyFreeOfOpen(s, d) ==
    \A j \in JobIds : phase[j] = "open" => schedule[j] # s \/ day[j] # d

KeyFree(s, d) == \A j \in JobIds : Active(j) => schedule[j] # s \/ day[j] # d

\* An insert whose key is taken by an active job returns that job.
Enqueue(w) ==
    /\ pc[w] = "enqueueing"
    /\ \E x \in due[w] :
          /\ due' = [due EXCEPT ![w] = @ \ {x}]
          /\ IF KeyFree(x[1], x[2])
             THEN \E j \in JobIds : Insert(j, x[1], x[2])
             ELSE UNCHANGED <<queueVars, jobVars>>
    /\ UNCHANGED <<timeVars, tableVars, fresh, pc, at, result, faults>>

Drain(w) ==
    /\ pc[w] = "enqueueing" /\ due[w] = {}
    /\ pc' = [pc EXCEPT ![w] = "draining"]
    /\ UNCHANGED <<timeVars, tableVars, queueVars, jobVars, fresh, due, at, result, faults>>

\* The list or an insert fails: the rest is left to the next poll.
EnqueueFails(w) ==
    /\ pc[w] \in {"waiting", "enqueueing"}
    /\ Fault
    /\ due' = [due EXCEPT ![w] = {}]
    /\ pc'  = [pc EXCEPT ![w] = "draining"]
    /\ UNCHANGED <<timeVars, tableVars, queueVars, jobVars, fresh, at, result>>

-----------------------------------------------------------------------------
\* The queue, as its users see it.

Claim(w) ==
    /\ pc[w] = "draining"
    /\ \E j \in JobIds \ resting :
          /\ Queue!Take(j, w)
          /\ at' = [at EXCEPT ![w] = j]
          /\ attempt' = [attempt EXCEPT ![j] = @ + 1]
    /\ pc' = [pc EXCEPT ![w] = "collect"]
    /\ UNCHANGED <<timeVars, tableVars, schedule, day, resting, outcome, fresh, due, result,
                   faults>>

NothingToClaim(w) ==
    /\ pc[w] = "draining"
    /\ \A j \in JobIds \ resting : phase[j] # "open"
    /\ pc' = [pc EXCEPT ![w] = "waiting"]
    /\ UNCHANGED <<timeVars, tableVars, queueVars, jobVars, fresh, due, at, result, faults>>

BackoffEnds(j) ==
    /\ j \in resting
    /\ resting' = resting \ {j}
    /\ UNCHANGED <<timeVars, tableVars, queueVars, schedule, day, attempt, outcome, fresh,
                   loopVars, faults>>

LeaseExpires(j) ==
    /\ phase[j] = "held" /\ holders[j] = {}
    /\ Queue!Reopen({j})
    /\ UNCHANGED <<timeVars, tableVars, jobVars, fresh, loopVars, faults>>

-----------------------------------------------------------------------------
\* RunSchedule, which is given the schedule as it was when the job was inserted.
\* Its schedule_runs rows are only ever read by the owner and are left out.

Job(w) == at[w]
Of(w)  == schedule[at[w]]

Goto(w, step) == pc' = [pc EXCEPT ![w] = step]

\* The variables a step of a pipeline leaves alone.
Outside == <<timeVars, enabled, queueVars, jobVars, due, at>>

StepFails(w) ==
    /\ pc[w] \in FailingSteps
    /\ \E e \in Errors : result' = [result EXCEPT ![w] = e]
    /\ Goto(w, "report")
    /\ UNCHANGED <<Outside, lastRun, fresh, faults>>

\* No new messages is a success: nothing is summarised or exported.
Collect(w) ==
    /\ pc[w] = "collect"
    /\ Goto(w, IF fresh[Of(w)] THEN "summarize" ELSE "mark")
    /\ UNCHANGED <<Outside, lastRun, fresh, result, faults>>

\* The summary is saved and the read positions pass its messages, unless the
\* positions cannot be written: that error is dropped too.
Summarize(w) ==
    /\ pc[w] = "summarize"
    /\ \/ fresh' = [fresh EXCEPT ![Of(w)] = FALSE] /\ UNCHANGED faults
       \/ Fault /\ UNCHANGED fresh
    /\ Goto(w, "export")
    /\ UNCHANGED <<Outside, lastRun, result>>

Export(w) ==
    /\ pc[w] = "export"
    /\ Goto(w, "mark")
    /\ UNCHANGED <<Outside, lastRun, fresh, result, faults>>

\* A variant that takes the day from another time zone.
MarkAnotherDay(w) ==
    /\ pc[w] = "mark"
    /\ lastRun' = [lastRun EXCEPT ![Of(w)] = today[Of(w)] + 1]
    /\ Goto(w, "report")
    /\ UNCHANGED <<Outside, fresh, result, faults>>

\* MarkScheduleRun writes the time at which the run ends.
MarkScheduleRun(w) ==
    /\ pc[w] = "mark"
    /\ lastRun' = [lastRun EXCEPT ![Of(w)] = today[Of(w)]]
    /\ Goto(w, "report")
    /\ UNCHANGED <<Outside, fresh, result, faults>>

\* Its error is dropped.
MarkFails(w) ==
    /\ pc[w] = "mark"
    /\ Fault
    /\ Goto(w, "report")
    /\ UNCHANGED <<Outside, lastRun, fresh, result>>

Settle(w, how) == /\ Queue!Report(Job(w), w, "settled")
                  /\ outcome' = [outcome EXCEPT ![Job(w)] = how]
                  /\ UNCHANGED resting

GiveBack(w) == /\ Queue!Report(Job(w), w, "open")
               /\ resting' = resting \cup {Job(w)}
               /\ UNCHANGED outcome

Report(w) ==
    /\ pc[w] = "report"
    /\ \/ result[w] = "ok" /\ Settle(w, "completed")
       \/ result[w] = "permanent" /\ Settle(w, "dead")
       \/ result[w] = "temporary" /\ attempt[Job(w)] >= MaxAttempts /\ Settle(w, "dead")
       \/ result[w] = "temporary" /\ attempt[Job(w)] < MaxAttempts /\ GiveBack(w)
    /\ at' = [at EXCEPT ![w] = 0]
    /\ result' = [result EXCEPT ![w] = "ok"]
    /\ Goto(w, "draining")
    /\ UNCHANGED <<timeVars, tableVars, schedule, day, attempt, fresh, due, faults>>

\* The worker dies and starts again, or cannot report: its job is left to the
\* lease.
Stop(w) ==
    /\ pc[w] # "waiting"
    /\ Fault
    /\ Queue!Abandon(w)
    /\ at'  = [at EXCEPT ![w] = 0]
    /\ due' = [due EXCEPT ![w] = {}]
    /\ result' = [result EXCEPT ![w] = "ok"]
    /\ Goto(w, "waiting")
    /\ UNCHANGED <<timeVars, tableVars, jobVars, fresh>>

-----------------------------------------------------------------------------
RunSchedule(w) == Collect(w) \/ Summarize(w) \/ Export(w) \/ MarkScheduleRun(w)

Loop(w) == \/ ListDue(w) \/ Enqueue(w) \/ Drain(w)
           \/ Claim(w) \/ NothingToClaim(w)
           \/ RunSchedule(w) \/ Report(w)

Next == \/ \E s \in Schedules : \/ Midnight(s) \/ TimePasses(s) \/ MessagesArrive(s)
                                \/ SetEnabled(s) \/ RunNow(s)
        \/ \E j \in JobIds : BackoffEnds(j) \/ LeaseExpires(j)
        \/ \E w \in Workers : \/ Loop(w)
                              \/ StepFails(w)
                              \/ EnqueueFails(w) \/ MarkFails(w) \/ Stop(w)

\* The ticker fires, calls return, backoffs and leases run out.
Fairness == /\ \A w \in Workers : WF_vars(Loop(w))
            /\ \A j \in JobIds : WF_vars(BackoffEnds(j)) /\ WF_vars(LeaseExpires(j))

Spec     == Init /\ [][Next]_vars
FairSpec == Spec /\ Fairness
=============================================================================
