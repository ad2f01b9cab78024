--------------------------- MODULE SchedulerProps ---------------------------
(***************************************************************************)
(* What the daily schedules must get right.                                *)
(***************************************************************************)
EXTENDS Scheduler

TimeType == /\ today \in [Schedules -> Days]
            /\ open \in [Schedules -> BOOLEAN]
            /\ overrun \subseteq Schedules \X Days

TableType == /\ enabled \in [Schedules -> BOOLEAN]
             /\ lastRun \in [Schedules -> 0..MaxDays]

QueueType == /\ phase \in [JobIds -> {"unknown", "open", "held", "settled"}]
             /\ holders \in [JobIds -> SUBSET Workers]

JobType == /\ schedule \in [JobIds -> Schedules]
           /\ day \in [JobIds -> 0..MaxDays]
           /\ attempt \in [JobIds -> Nat]
           /\ resting \subseteq JobIds
           /\ outcome \in [JobIds -> {"none", "completed", "dead"}]

WorkType == fresh \in [Schedules -> BOOLEAN]

LoopType == /\ pc \in [Workers -> Control]
            /\ due \in [Workers -> SUBSET (Schedules \X Days)]
            /\ at \in [Workers -> JobIds \cup {0}]
            /\ result \in [Workers -> Results]
            /\ faults \in Nat

HoldsItsJob ==
    \A w \in Workers : pc[w] \in Running => at[w] \in JobIds /\ w \in holders[at[w]]

\* Times, tables, queue and workers hold values of their types, and a worker
\* inside RunSchedule is a holder of its job until it has reported.
TypeOK == /\ TimeType /\ TableType /\ QueueType /\ JobType /\ WorkType /\ LoopType
          /\ HoldsItsJob

SameDay(i, j) == schedule[i] = schedule[j] /\ day[i] = day[j] /\ day[i] # 0

\* Two workers never run the pipeline of one schedule and day at the same time:
\* a second job of the day is inserted only when the first is settled, however
\* old the list it is inserted from.
OnePipelinePerDay ==
    \A v, w \in Workers :
        pc[v] \in Running /\ pc[w] \in Running /\ SameDay(at[v], at[w]) => v = w

Known(j) == phase[j] # "unknown"

\* Polling does not create duplicates (README.md:349): one scheduled job for each
\* schedule and local day.
NoDuplicateJobs ==
    \A i, j \in JobIds : Known(i) /\ Known(j) /\ SameDay(i, j) => i = j

OneWorker == \A v, w \in Workers : v = w

\* Polling gives a day a second job only after a fault, such as a write of
\* last_run_at that failed, or when the pipeline of the first one died.  Needs
\* OneWorker: the list of another one may be older than the run of the day.
DuplicatesAreFaults ==
    \A i, j \in JobIds : i < j /\ Known(j) /\ SameDay(i, j) => faults > 0 \/ outcome[i] = "dead"

\* A day that counts as run, so that IsDue is false for the rest of it, has a job
\* of its own, unless a manual run took its place or the day began while an older
\* run was unfinished.  last_run_at is the time at which a run ends: only such a
\* run can make the code skip a day, and only the day it ends in.
MarkedDayHasItsJob ==
    \A s \in Schedules : lastRun[s] # 0 =>
        \/ \E j \in JobIds : Known(j) /\ schedule[j] = s /\ day[j] \in {0, lastRun[s]}
        \/ <<s, lastRun[s]>> \in overrun

\* A schedule that stays enabled and open on the last day is run that day.
LastDayRuns ==
    \A s \in Schedules :
        <>[](enabled[s] /\ open[s] /\ today[s] = MaxDays) => <>(lastRun[s] = MaxDays)
=============================================================================
