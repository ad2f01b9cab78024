--------------------------- MODULE SchedulerProofs ---------------------------
(***************************************************************************)
(* Theorems about the daily schedules, for every number of workers,        *)
(* schedules, jobs and days.                                               *)
(***************************************************************************)
EXTENDS SchedulerProps, TLAPS

-----------------------------------------------------------------------------
\* The types.

\* The state before any poll is of its type.
LEMMA InitTypes == Init => TypeOK
<1> SUFFICES ASSUME Init PROVE TypeOK
    OBVIOUS
<1>1. TimeType /\ TableType
    BY SchedulerAssumption DEF Init, TimeType, TableType, Days
<1>2. QueueType
    BY DEF Init, QueueType, Queue!Init
<1>3. JobType
    BY SchedulerAssumption DEF Init, JobType
<1>4. WorkType
    BY DEF Init, WorkType
<1>5. LoopType
    BY DEF Init, LoopType, Control, Results
<1>6. HoldsItsJob
    BY DEF Init, HoldsItsJob, Running
<1> QED BY <1>1, <1>2, <1>3, <1>4, <1>5, <1>6 DEF TypeOK

\* Inserting a job keeps the queue and the jobs in their types.
LEMMA InsertTypes ==
    ASSUME TypeOK, NEW j \in JobIds, NEW s \in Schedules, NEW d \in 0..MaxDays, Insert(j, s, d)
    PROVE  QueueType' /\ JobType' /\ UNCHANGED holders
BY DEF TypeOK, QueueType, JobType, Insert, Queue!Submit

\* What a worker does after the last step of a pipeline, whatever it reports.
LEMMA ReportTypes ==
    ASSUME TypeOK, NEW w \in Workers, Report(w)
    PROVE  /\ QueueType' /\ JobType'
           /\ at[w] \in JobIds
           /\ holders[at[w]] = {w}
           /\ holders' = [holders EXCEPT ![at[w]] = {}]
<1>1. at[w] \in JobIds
    BY DEF Report, TypeOK, HoldsItsJob, Running
<1>2. QueueType' /\ holders[at[w]] = {w} /\ holders' = [holders EXCEPT ![at[w]] = {}]
    BY <1>1 DEF Report, TypeOK, QueueType, Settle, GiveBack, Job, Queue!Report
<1>3. resting' \subseteq JobIds
    BY <1>1 DEF Report, TypeOK, JobType, Settle, GiveBack, Job
<1>4. outcome' \in [JobIds -> {"none", "completed", "dead"}]
    BY <1>1 DEF Report, TypeOK, JobType, Settle, GiveBack, Job
<1>5. JobType'
    BY <1>3, <1>4 DEF Report, TypeOK, JobType
<1> QED BY <1>1, <1>2, <1>5

\* Every step keeps every part of the type invariant.
LEMMA NextTypes == TypeOK /\ [Next]_vars => TypeOK'
<1> SUFFICES ASSUME TypeOK, [Next]_vars PROVE TypeOK'
    OBVIOUS
<1> USE DEF TypeOK, timeVars, tableVars, queueVars, jobVars, loopVars
<1>1. ASSUME NEW s \in Schedules, Midnight(s) PROVE TypeOK'
    <2>1. TimeType'
        BY <1>1, SchedulerAssumption DEF Midnight, TimeType, Days, Unfinished
    <2> QED BY <1>1, <2>1 DEF Midnight, TableType, QueueType, JobType, WorkType, LoopType,
                              HoldsItsJob
<1>2. ASSUME NEW s \in Schedules, TimePasses(s) PROVE TypeOK'
    <2>1. TimeType'
        BY <1>2 DEF TimePasses, TimeType
    <2> QED BY <1>2, <2>1 DEF TimePasses, TableType, QueueType, JobType, WorkType, LoopType,
                              HoldsItsJob
<1>3. ASSUME NEW s \in Schedules, MessagesArrive(s) PROVE TypeOK'
    <2>1. WorkType'
        BY <1>3 DEF MessagesArrive, WorkType
    <2> QED BY <1>3, <2>1 DEF MessagesArrive, TimeType, TableType, QueueType, JobType, LoopType,
                              HoldsItsJob
<1>4. ASSUME NEW s \in Schedules, SetEnabled(s) PROVE TypeOK'
    <2>1. TableType'
        BY <1>4 DEF SetEnabled, TableType
    <2> QED BY <1>4, <2>1 DEF SetEnabled, TimeType, QueueType, JobType, WorkType, LoopType,
                              HoldsItsJob
<1>5. ASSUME NEW s \in Schedules, RunNow(s) PROVE TypeOK'
    <2>1. PICK j \in JobIds : Insert(j, s, 0)
        BY <1>5 DEF RunNow
    <2>2. QueueType' /\ JobType' /\ UNCHANGED holders
        BY <2>1, InsertTypes, SchedulerAssumption
    <2> QED BY <1>5, <2>2 DEF RunNow, TimeType, TableType, WorkType, LoopType, HoldsItsJob
<1>6. ASSUME NEW w \in Workers, ListDue(w) PROVE TypeOK'
    <2>1. {<<s, today[s]>> : s \in {z \in Schedules : IsDue(z)}} \in SUBSET (Schedules \X Days)
        BY DEF TimeType
    <2>2. LoopType'
        BY <1>6, <2>1 DEF ListDue, LoopType, Control
    <2>3. HoldsItsJob'
        BY <1>6 DEF ListDue, HoldsItsJob, LoopType, Running
    <2> QED BY <1>6, <2>2, <2>3 DEF ListDue, TimeType, TableType, QueueType, JobType, WorkType
<1>7. ASSUME NEW w \in Workers, Enqueue(w) PROVE TypeOK'
    <2>1. PICK x \in due[w] :
            /\ due' = [due EXCEPT ![w] = @ \ {x}]
            /\ IF KeyFree(x[1], x[2])
               THEN \E j \in JobIds : Insert(j, x[1], x[2])
               ELSE UNCHANGED <<queueVars, jobVars>>
        BY <1>7 DEF Enqueue
    <2>2. x[1] \in Schedules /\ x[2] \in 0..MaxDays
        BY SchedulerAssumption DEF LoopType, Days
    <2>3. QueueType' /\ JobType' /\ UNCHANGED holders
        <3>1. CASE KeyFree(x[1], x[2])
            BY <2>1, <2>2, <3>1, InsertTypes
        <3>2. CASE ~KeyFree(x[1], x[2])
            BY <2>1, <3>2 DEF QueueType, JobType
        <3> QED BY <3>1, <3>2
    <2>4. LoopType' /\ HoldsItsJob'
        BY <1>7, <2>1, <2>3 DEF Enqueue, LoopType, HoldsItsJob
    <2> QED BY <1>7, <2>3, <2>4 DEF Enqueue, TimeType, TableType, WorkType
<1>8. ASSUME NEW w \in Workers, Drain(w) PROVE TypeOK'
    <2>1. LoopType' /\ HoldsItsJob'
        BY <1>8 DEF Drain, LoopType, HoldsItsJob, Control, Running
    <2> QED BY <1>8, <2>1 DEF Drain, TimeType, TableType, QueueType, JobType, WorkType
<1>9. ASSUME NEW w \in Workers, EnqueueFails(w) PROVE TypeOK'
    <2>1. LoopType' /\ HoldsItsJob'
        BY <1>9 DEF EnqueueFails, Fault, LoopType, HoldsItsJob, Control, Running
    <2> QED BY <1>9, <2>1 DEF EnqueueFails, TimeType, TableType, QueueType, JobType, WorkType
<1>10. ASSUME NEW w \in Workers, Claim(w) PROVE TypeOK'
    <2>1. PICK j \in JobIds \ resting :
            /\ Queue!Take(j, w)
            /\ at' = [at EXCEPT ![w] = j]
            /\ attempt' = [attempt EXCEPT ![j] = @ + 1]
        BY <1>10 DEF Claim
    <2>2. QueueType'
        BY <2>1 DEF Queue!Take, QueueType
    <2>3. JobType'
        BY <1>10, <2>1 DEF Claim, JobType
    <2>4. LoopType'
        BY <1>10, <2>1 DEF Claim, LoopType, Control, Running
    <2>5. HoldsItsJob'
        BY <1>10, <2>1 DEF Claim, Queue!Take, HoldsItsJob, LoopType, QueueType
    <2> QED BY <1>10, <2>2, <2>3, <2>4, <2>5 DEF Claim, TimeType, TableType, WorkType
<1>11. ASSUME NEW w \in Workers, NothingToClaim(w) PROVE TypeOK'
    <2>1. LoopType' /\ HoldsItsJob'
        BY <1>11 DEF NothingToClaim, LoopType, HoldsItsJob, Control, Running
    <2> QED BY <1>11, <2>1 DEF NothingToClaim, TimeType, TableType, QueueType, JobType, WorkType
<1>12. ASSUME NEW j \in JobIds, BackoffEnds(j) PROVE TypeOK'
    <2>1. JobType'
        BY <1>12 DEF BackoffEnds, JobType
    <2> QED BY <1>12, <2>1 DEF BackoffEnds, TimeType, TableType, QueueType, WorkType, LoopType,
                               HoldsItsJob
<1>13. ASSUME NEW j \in JobIds, LeaseExpires(j) PROVE TypeOK'
    <2>1. QueueType' /\ UNCHANGED holders
        BY <1>13 DEF LeaseExpires, Queue!Reopen, QueueType
    <2> QED BY <1>13, <2>1 DEF LeaseExpires, TimeType, TableType, JobType, WorkType, LoopType,
                               HoldsItsJob
<1>14. ASSUME NEW w \in Workers, RunSchedule(w) \/ StepFails(w) \/ MarkFails(w) PROVE TypeOK'
    <2>1. at[w] \in JobIds /\ Of(w) \in Schedules
        <3>1. pc[w] \in Running
            BY <1>14, SchedulerAssumption DEF RunSchedule, Collect, Summarize, Export,
                    MarkScheduleRun, StepFails, MarkFails, Steps, Running
        <3> QED BY <3>1 DEF HoldsItsJob, Of, JobType
    <2>2. TimeType' /\ QueueType' /\ JobType' /\ UNCHANGED <<enabled, holders, due, at>>
        BY <1>14 DEF RunSchedule, Collect, Summarize, Export, MarkScheduleRun, StepFails, MarkFails,
                     Outside, TimeType, QueueType, JobType
    <2>3. TableType'
        BY <1>14, <2>1 DEF RunSchedule, Collect, Summarize, Export, MarkScheduleRun, StepFails,
                     MarkFails, Outside, TimeType, TableType, Days
    <2>4. WorkType'
        BY <1>14, <2>1 DEF RunSchedule, Collect, Summarize, Export, MarkScheduleRun, StepFails,
                     MarkFails, WorkType, Job
    <2>5. faults' \in Nat /\ result' \in [Workers -> Results]
        BY <1>14, SchedulerAssumption DEF RunSchedule, Collect, Summarize, Export, MarkScheduleRun,
                     StepFails, MarkFails, Fault, LoopType, Results
    <2>6. \E step \in Running : pc' = [pc EXCEPT ![w] = step]
        BY <1>14 DEF RunSchedule, Collect, Summarize, Export, MarkScheduleRun, StepFails, MarkFails,
                     Goto, Running
    <2>7. LoopType'
        BY <2>2, <2>5, <2>6 DEF LoopType, Control
    <2>8. pc[w] \in Running
        BY <1>14, SchedulerAssumption DEF RunSchedule, Collect, Summarize, Export,
                MarkScheduleRun, StepFails, MarkFails, Steps, Running
    <2>9. HoldsItsJob'
        BY <2>2, <2>6, <2>8 DEF LoopType, HoldsItsJob
    <2> QED BY <2>2, <2>3, <2>4, <2>7, <2>9
<1>15. ASSUME NEW w \in Workers, Report(w) PROVE TypeOK'
    <2>1. /\ QueueType' /\ JobType' /\ at[w] \in JobIds
          /\ holders[at[w]] = {w} /\ holders' = [holders EXCEPT ![at[w]] = {}]
        BY <1>15, ReportTypes
    <2>2. LoopType'
        BY <1>15 DEF Report, Goto, LoopType, Control, Results
    <2>3. HoldsItsJob'
        BY <1>15, <2>1 DEF Report, Goto, LoopType, HoldsItsJob, QueueType, Running
    <2> QED BY <1>15, <2>1, <2>2, <2>3 DEF Report, TimeType, TableType, WorkType
<1>16. ASSUME NEW w \in Workers, Stop(w) PROVE TypeOK'
    <2>1. QueueType'
        BY <1>16 DEF Stop, Queue!Abandon, QueueType
    <2>2. LoopType'
        BY <1>16 DEF Stop, Fault, Goto, LoopType, Control, Results
    <2>3. HoldsItsJob'
        BY <1>16 DEF Stop, Queue!Abandon, Goto, LoopType, HoldsItsJob, Running
    <2> QED BY <1>16, <2>1, <2>2, <2>3 DEF Stop, TimeType, TableType, JobType, WorkType
<1>17. CASE UNCHANGED vars
    BY <1>17 DEF vars, TimeType, TableType, QueueType, JobType, WorkType, LoopType, HoldsItsJob
<1> QED BY <1>1, <1>2, <1>3, <1>4, <1>5, <1>6, <1>7, <1>8, <1>9, <1>10, <1>11, <1>12, <1>13,
           <1>14, <1>15, <1>16, <1>17 DEF Next, Loop

\* Times, tables, queue and workers keep their types, and a worker inside
\* RunSchedule holds its job until it has reported.
THEOREM TypeCorrect == Spec => []TypeOK
BY InitTypes, NextTypes, PTL DEF Spec

-----------------------------------------------------------------------------
\* One pipeline for a schedule and its day.

\* A held job has at most one holder, and only held jobs have any.
OneHolder == \A j \in JobIds : /\ holders[j] # {} => phase[j] = "held"
                               /\ \A v, w \in holders[j] : v = w

\* What the deduplication key enforces on its own.
OneActivePerDay == \A i, j \in JobIds : Active(i) /\ Active(j) /\ SameDay(i, j) => i = j

Exclusive == TypeOK /\ OneHolder /\ OneActivePerDay

\* A job inserted under a free key, or under the key of a manual run, is the only
\* active one of its day.
LEMMA InsertExclusive ==
    ASSUME Exclusive, NEW j \in JobIds, NEW s \in Schedules, NEW d \in 0..MaxDays,
           Insert(j, s, d), d = 0 \/ KeyFree(s, d)
    PROVE  OneHolder' /\ OneActivePerDay'
<1>1. OneHolder'
    BY DEF Exclusive, OneHolder, Insert, Queue!Submit, TypeOK, QueueType
<1>2. ASSUME NEW i \in JobIds, NEW k \in JobIds, (Active(i) /\ Active(k) /\ SameDay(i, k))'
      PROVE  i = k
    <2>1. CASE i = j \/ k = j
        BY <1>2, <2>1 DEF Exclusive, TypeOK, QueueType, JobType, Insert, Queue!Submit, Active,
                          SameDay, KeyFree
    <2>2. CASE i # j /\ k # j
        BY <1>2, <2>2 DEF Exclusive, OneActivePerDay, TypeOK, QueueType, JobType, Insert,
                          Queue!Submit, Active, SameDay
    <2> QED BY <2>1, <2>2
<1> QED BY <1>1, <1>2 DEF OneActivePerDay

\* A step that neither activates a job nor changes keys keeps them distinct.
LEMMA NoneActivated ==
    ASSUME OneActivePerDay, UNCHANGED <<schedule, day>>, \A j \in JobIds : Active(j)' => Active(j)
    PROVE  OneActivePerDay'
BY DEF OneActivePerDay, SameDay

\* Every step of the polls, workers and owner keeps both.
LEMMA NextExclusive == Exclusive /\ [Next]_vars => Exclusive'
<1> SUFFICES ASSUME Exclusive, [Next]_vars PROVE OneHolder' /\ OneActivePerDay'
    BY NextTypes DEF Exclusive
<1> TypeOK /\ OneHolder /\ OneActivePerDay
    BY DEF Exclusive
<1> USE DEF queueVars, jobVars
<1>1. ASSUME UNCHANGED <<queueVars, schedule, day>> PROVE OneHolder' /\ OneActivePerDay'
    BY <1>1 DEF OneHolder, OneActivePerDay, Active, SameDay
<1>2. ASSUME NEW s \in Schedules, RunNow(s) PROVE OneHolder' /\ OneActivePerDay'
    BY <1>2, InsertExclusive, SchedulerAssumption DEF RunNow
<1>3. ASSUME NEW w \in Workers, Enqueue(w) PROVE OneHolder' /\ OneActivePerDay'
    <2>1. PICK x \in due[w] :
            IF KeyFree(x[1], x[2])
            THEN \E j \in JobIds : Insert(j, x[1], x[2])
            ELSE UNCHANGED <<queueVars, jobVars>>
        BY <1>3 DEF Enqueue
    <2>2. x[1] \in Schedules /\ x[2] \in 0..MaxDays
        BY SchedulerAssumption DEF TypeOK, LoopType, Days
    <2>3. CASE KeyFree(x[1], x[2])
        BY <2>1, <2>2, <2>3, InsertExclusive
    <2>4. CASE ~KeyFree(x[1], x[2])
        BY <2>1, <2>4, <1>1
    <2> QED BY <2>3, <2>4
<1>4. ASSUME NEW w \in Workers, Claim(w) PROVE OneHolder' /\ OneActivePerDay'
    <2>1. PICK j \in JobIds : Queue!Take(j, w)
        BY <1>4 DEF Claim
    <2>2. OneHolder'
        BY <2>1 DEF Queue!Take, OneHolder, TypeOK, QueueType
    <2>3. \A i \in JobIds : Active(i)' => Active(i)
        BY <2>1 DEF Queue!Take, Active, TypeOK, QueueType
    <2> QED BY <1>4, <2>2, <2>3, NoneActivated DEF Claim
<1>5. ASSUME NEW j \in JobIds, LeaseExpires(j) PROVE OneHolder' /\ OneActivePerDay'
    <2>1. OneHolder'
        BY <1>5 DEF LeaseExpires, Queue!Reopen, OneHolder, TypeOK, QueueType
    <2>2. \A i \in JobIds : Active(i)' => Active(i)
        BY <1>5 DEF LeaseExpires, Queue!Reopen, Active, TypeOK, QueueType
    <2> QED BY <1>5, <2>1, <2>2, NoneActivated DEF LeaseExpires
<1>6. ASSUME NEW w \in Workers, Report(w) PROVE OneHolder' /\ OneActivePerDay'
    <2>1. at[w] \in JobIds
        BY <1>6, ReportTypes
    <2>2. PICK to \in {"settled", "open"} : Queue!Report(at[w], w, to)
        BY <1>6 DEF Report, Settle, GiveBack, Job
    <2>3. OneHolder'
        BY <2>1, <2>2 DEF Queue!Report, OneHolder, TypeOK, QueueType
    <2>4. \A i \in JobIds : Active(i)' => Active(i)
        BY <2>1, <2>2 DEF Queue!Report, Active, TypeOK, QueueType
    <2> QED BY <1>6, <2>3, <2>4, NoneActivated DEF Report
<1>7. ASSUME NEW w \in Workers, Stop(w) PROVE OneHolder' /\ OneActivePerDay'
    <2>1. OneHolder'
        BY <1>7 DEF Stop, Queue!Abandon, OneHolder, TypeOK, QueueType
    <2>2. \A i \in JobIds : Active(i)' => Active(i)
        BY <1>7 DEF Stop, Queue!Abandon, Active
    <2> QED BY <1>7, <2>1, <2>2, NoneActivated DEF Stop
<1>8. ASSUME NEW w \in Workers, RunSchedule(w) \/ StepFails(w) \/ MarkFails(w)
      PROVE  OneHolder' /\ OneActivePerDay'
    BY <1>8, <1>1 DEF RunSchedule, Collect, Summarize, Export, MarkScheduleRun, StepFails,
                      MarkFails, Outside
<1>9. ASSUME NEW s \in Schedules,
             Midnight(s) \/ TimePasses(s) \/ MessagesArrive(s) \/ SetEnabled(s)
      PROVE  OneHolder' /\ OneActivePerDay'
    BY <1>9, <1>1 DEF Midnight, TimePasses, MessagesArrive, SetEnabled
<1>10. ASSUME NEW w \in Workers, ListDue(w) \/ Drain(w) \/ EnqueueFails(w) \/ NothingToClaim(w)
       PROVE  OneHolder' /\ OneActivePerDay'
    BY <1>10, <1>1 DEF ListDue, Drain, EnqueueFails, NothingToClaim
<1>11. ASSUME NEW j \in JobIds, BackoffEnds(j) PROVE OneHolder' /\ OneActivePerDay'
    BY <1>11, <1>1 DEF BackoffEnds
<1>12. CASE UNCHANGED vars
    BY <1>12, <1>1 DEF vars
<1> QED BY <1>2, <1>3, <1>4, <1>5, <1>6, <1>7, <1>8, <1>9, <1>10, <1>11, <1>12 DEF Next, Loop

\* However old the list a worker inserts from, and however its jobs fail, are
\* abandoned and retried, a schedule's pipeline of a day runs on one worker.
THEOREM OnePipeline == Spec => []OnePipelinePerDay
<1>1. Init => Exclusive
    <2> SUFFICES ASSUME Init PROVE OneHolder /\ OneActivePerDay
        BY InitTypes DEF Exclusive
    <2> QED BY DEF Init, Queue!Init, OneHolder, OneActivePerDay, Active
<1>2. Exclusive => OnePipelinePerDay
    <2> SUFFICES ASSUME Exclusive, NEW v \in Workers, NEW w \in Workers,
                        pc[v] \in Running, pc[w] \in Running, SameDay(at[v], at[w])
                 PROVE  v = w
        BY DEF OnePipelinePerDay
    <2>1. /\ at[v] \in JobIds /\ v \in holders[at[v]]
          /\ at[w] \in JobIds /\ w \in holders[at[w]]
        BY DEF Exclusive, TypeOK, HoldsItsJob
    <2>2. Active(at[v]) /\ Active(at[w])
        BY <2>1 DEF Exclusive, OneHolder, Active
    <2>3. at[v] = at[w]
        BY <2>1, <2>2 DEF Exclusive, OneActivePerDay
    <2> QED BY <2>1, <2>3 DEF Exclusive, OneHolder
<1> QED BY <1>1, <1>2, NextExclusive, PTL DEF Spec

-----------------------------------------------------------------------------
\* The days that count as run.

\* The day of the schedule began while a run was unfinished.
Overrun(s) == <<s, today[s]>> \in overrun

\* The jobs that are active and those about to be inserted are today's, unless the
\* day began while a run was unfinished.
JobsOfToday == \A j \in JobIds : Active(j) =>
                  day[j] \in {0, today[schedule[j]]} \/ Overrun(schedule[j])

ListsOfToday == \A w \in Workers : \A x \in due[w] : x[2] = today[x[1]] \/ Overrun(x[1])

Punctual == TypeOK /\ OneHolder /\ JobsOfToday /\ ListsOfToday /\ MarkedDayHasItsJob

\* A job inserted today, or by hand, is one of today; one inserted from yesterday's
\* list makes today an overrun day.
LEMMA InsertToday ==
    ASSUME Punctual, NEW j \in JobIds, NEW s \in Schedules, NEW d \in 0..MaxDays,
           Insert(j, s, d), d \in {0, today[s]} \/ Overrun(s),
           UNCHANGED <<today, overrun, lastRun>>
    PROVE  JobsOfToday' /\ MarkedDayHasItsJob'
<1> TypeOK /\ JobsOfToday /\ MarkedDayHasItsJob
    BY DEF Punctual
<1>1. JobsOfToday'
    BY DEF JobsOfToday, Overrun, Insert, Queue!Submit, Active, TypeOK, QueueType, JobType
<1>2. ASSUME NEW i \in JobIds, Known(i)
      PROVE  Known(i)' /\ UNCHANGED <<schedule[i], day[i]>>
    BY <1>2 DEF Known, Insert, Queue!Submit, TypeOK, QueueType, JobType
<1>3. MarkedDayHasItsJob'
    BY <1>2 DEF MarkedDayHasItsJob
<1> QED BY <1>1, <1>3

\* A step that activates no job and moves neither days nor keys keeps both.
LEMMA SameToday ==
    ASSUME Punctual, UNCHANGED <<today, overrun, lastRun, schedule, day>>,
           \A j \in JobIds : (Active(j)' => Active(j)) /\ (Known(j) => Known(j)')
    PROVE  JobsOfToday' /\ MarkedDayHasItsJob'
BY DEF Punctual, JobsOfToday, MarkedDayHasItsJob, Overrun

\* Every step keeps jobs, lists and marks on their days.
LEMMA NextToday ==
    ASSUME Punctual, OneHolder', [Next]_vars
    PROVE  Punctual'
<1> SUFFICES ListsOfToday' /\ JobsOfToday' /\ MarkedDayHasItsJob'
    BY NextTypes DEF Punctual
<1> TypeOK /\ OneHolder /\ JobsOfToday /\ ListsOfToday /\ MarkedDayHasItsJob
    BY DEF Punctual
<1> USE DEF timeVars, tableVars, queueVars, jobVars, loopVars
<1>1. ASSUME UNCHANGED <<today, overrun, lastRun, queueVars, schedule, day>>
      PROVE  JobsOfToday' /\ MarkedDayHasItsJob'
    BY <1>1, SameToday DEF Active, Known
<1>2. ASSUME UNCHANGED <<today, overrun, due>> PROVE ListsOfToday'
    BY <1>2 DEF ListsOfToday, Overrun
<1>3. ASSUME NEW s \in Schedules, Midnight(s)
      PROVE  ListsOfToday' /\ JobsOfToday' /\ MarkedDayHasItsJob'
    <2>1. /\ \A z \in Schedules \ {s} : today'[z] = today[z]
          /\ \A z \in Schedules \ {s} : Overrun(z) => Overrun(z)'
          /\ Unfinished(s) => Overrun(s)'
          /\ overrun \subseteq overrun' /\ schedule' = schedule
        BY <1>3 DEF Midnight, Overrun, TypeOK, TimeType
    <2>2. ListsOfToday'
        <3> SUFFICES ASSUME NEW w \in Workers, NEW x \in due[w]
                     PROVE  x[2] = today'[x[1]] \/ Overrun(x[1])'
            BY <1>3 DEF Midnight, ListsOfToday
        <3>1. x[1] \in Schedules /\ (x[2] = today[x[1]] \/ Overrun(x[1]))
            BY DEF ListsOfToday, Overrun, TypeOK, LoopType
        <3>2. CASE x[1] = s
            BY <2>1, <3>2 DEF Unfinished
        <3>3. CASE x[1] # s
            BY <2>1, <3>1, <3>3
        <3> QED BY <3>2, <3>3
    <2>3. JobsOfToday'
        <3> SUFFICES ASSUME NEW j \in JobIds, Active(j)
                     PROVE  day[j] \in {0, today'[schedule[j]]} \/ Overrun(schedule[j])'
            BY <1>3 DEF Midnight, JobsOfToday, Active
        <3>1. schedule[j] \in Schedules /\ (day[j] \in {0, today[schedule[j]]} \/ Overrun(schedule[j]))
            BY DEF JobsOfToday, TypeOK, JobType
        <3>2. CASE schedule[j] = s
            BY <2>1, <3>2 DEF Unfinished
        <3>3. CASE schedule[j] # s
            BY <2>1, <3>1, <3>3
        <3> QED BY <3>2, <3>3
    <2>4. MarkedDayHasItsJob'
        BY <1>3, <2>1 DEF Midnight, MarkedDayHasItsJob, Known
    <2> QED BY <2>2, <2>3, <2>4
<1>4. ASSUME NEW s \in Schedules, RunNow(s)
      PROVE  ListsOfToday' /\ JobsOfToday' /\ MarkedDayHasItsJob'
    BY <1>4, <1>2, InsertToday, SchedulerAssumption DEF RunNow
<1>5. ASSUME NEW w \in Workers, ListDue(w)
      PROVE  ListsOfToday' /\ JobsOfToday' /\ MarkedDayHasItsJob'
    <2>1. ListsOfToday'
        BY <1>5 DEF ListDue, ListsOfToday, Overrun, TypeOK, LoopType
    <2> QED BY <1>5, <1>1, <2>1 DEF ListDue
<1>6. ASSUME NEW w \in Workers, Enqueue(w)
      PROVE  ListsOfToday' /\ JobsOfToday' /\ MarkedDayHasItsJob'
    <2>1. PICK x \in due[w] :
            /\ due' = [due EXCEPT ![w] = @ \ {x}]
            /\ IF KeyFree(x[1], x[2])
               THEN \E j \in JobIds : Insert(j, x[1], x[2])
               ELSE UNCHANGED <<queueVars, jobVars>>
        BY <1>6 DEF Enqueue
    <2>2. /\ x[1] \in Schedules /\ x[2] \in 0..MaxDays
          /\ x[2] = today[x[1]] \/ Overrun(x[1])
        BY SchedulerAssumption DEF TypeOK, LoopType, Days, ListsOfToday
    <2>3. ListsOfToday'
        BY <1>6, <2>1 DEF Enqueue, ListsOfToday, Overrun, TypeOK, LoopType
    <2>4. CASE KeyFree(x[1], x[2])
        BY <1>6, <2>1, <2>2, <2>3, <2>4, InsertToday DEF Enqueue
    <2>5. CASE ~KeyFree(x[1], x[2])
        BY <1>6, <1>1, <2>1, <2>3, <2>5 DEF Enqueue, jobVars
    <2> QED BY <2>4, <2>5
<1>7. ASSUME NEW w \in Workers, Claim(w)
      PROVE  ListsOfToday' /\ JobsOfToday' /\ MarkedDayHasItsJob'
    <2>1. \A j \in JobIds : (Active(j)' => Active(j)) /\ (Known(j) => Known(j)')
        BY <1>7 DEF Claim, Queue!Take, Active, Known, TypeOK, QueueType
    <2> QED BY <1>7, <1>2, <2>1, SameToday DEF Claim
<1>8. ASSUME NEW j \in JobIds, LeaseExpires(j)
      PROVE  ListsOfToday' /\ JobsOfToday' /\ MarkedDayHasItsJob'
    <2>1. \A i \in JobIds : (Active(i)' => Active(i)) /\ (Known(i) => Known(i)')
        BY <1>8 DEF LeaseExpires, Queue!Reopen, Active, Known, TypeOK, QueueType
    <2> QED BY <1>8, <1>2, <2>1, SameToday DEF LeaseExpires, jobVars
<1>9. ASSUME NEW w \in Workers, Report(w)
      PROVE  ListsOfToday' /\ JobsOfToday' /\ MarkedDayHasItsJob'
    <2>1. PICK to \in {"settled", "open"} : Queue!Report(at[w], w, to)
        BY <1>9 DEF Report, Settle, GiveBack, Job
    <2>2. \A j \in JobIds : (Active(j)' => Active(j)) /\ (Known(j) => Known(j)')
        BY <1>9, <2>1, ReportTypes DEF Queue!Report, Active, Known, TypeOK, QueueType
    <2> QED BY <1>9, <1>2, <2>2, SameToday DEF Report
<1>10. ASSUME NEW w \in Workers, Stop(w)
       PROVE  ListsOfToday' /\ JobsOfToday' /\ MarkedDayHasItsJob'
    <2>1. ListsOfToday'
        BY <1>10 DEF Stop, ListsOfToday, Overrun, TypeOK, LoopType
    <2>2. \A j \in JobIds : (Active(j)' => Active(j)) /\ (Known(j) => Known(j)')
        BY <1>10 DEF Stop, Queue!Abandon, Active, Known
    <2> QED BY <1>10, <2>1, <2>2, SameToday DEF Stop, jobVars
<1>11. ASSUME NEW w \in Workers, EnqueueFails(w)
       PROVE  ListsOfToday' /\ JobsOfToday' /\ MarkedDayHasItsJob'
    <2>1. ListsOfToday'
        BY <1>11 DEF EnqueueFails, ListsOfToday, Overrun, TypeOK, LoopType
    <2> QED BY <1>11, <1>1, <2>1 DEF EnqueueFails, jobVars
<1>12. ASSUME NEW w \in Workers, MarkScheduleRun(w)
       PROVE  ListsOfToday' /\ JobsOfToday' /\ MarkedDayHasItsJob'
    <2>1. at[w] \in JobIds /\ Active(at[w])
        BY <1>12 DEF MarkScheduleRun, TypeOK, HoldsItsJob, Running, OneHolder, Active
    <2>2. /\ Known(at[w]) /\ Of(w) \in Schedules
          /\ day[at[w]] \in {0, today[Of(w)]} \/ Overrun(Of(w))
        BY <2>1 DEF Known, Active, JobsOfToday, Of, TypeOK, JobType
    <2>3. MarkedDayHasItsJob'
        BY <1>12, <2>1, <2>2 DEF MarkScheduleRun, Outside, MarkedDayHasItsJob, Overrun, Known,
                                 Of, jobVars,
                                 TypeOK, TableType
    <2>4. JobsOfToday' /\ ListsOfToday'
        BY <1>12 DEF MarkScheduleRun, Outside, JobsOfToday, ListsOfToday, Overrun, Active, jobVars
    <2> QED BY <2>3, <2>4
<1>13. ASSUME NEW w \in Workers,
              \/ Collect(w) \/ Summarize(w) \/ Export(w) \/ StepFails(w) \/ MarkFails(w)
              \/ Drain(w) \/ NothingToClaim(w)
       PROVE  ListsOfToday' /\ JobsOfToday' /\ MarkedDayHasItsJob'
    BY <1>13, <1>1, <1>2 DEF Collect, Summarize, Export, StepFails, MarkFails, Outside, Drain,
                             NothingToClaim, jobVars
<1>14. ASSUME NEW s \in Schedules, TimePasses(s) \/ MessagesArrive(s) \/ SetEnabled(s)
       PROVE  ListsOfToday' /\ JobsOfToday' /\ MarkedDayHasItsJob'
    BY <1>14, <1>1, <1>2 DEF TimePasses, MessagesArrive, SetEnabled, jobVars
<1>15. ASSUME NEW j \in JobIds, BackoffEnds(j)
       PROVE  ListsOfToday' /\ JobsOfToday' /\ MarkedDayHasItsJob'
    BY <1>15, <1>1, <1>2 DEF BackoffEnds
<1>16. CASE UNCHANGED vars
    BY <1>16, <1>1, <1>2 DEF vars, jobVars
<1> QED BY <1>3, <1>4, <1>5, <1>6, <1>7, <1>8, <1>9, <1>10, <1>11, <1>12, <1>13, <1>14, <1>15,
           <1>16 DEF Next, Loop, RunSchedule

\* last_run_at names a day with a job of its own, one with a manual run, or one that
\* began while an older run was unfinished: no other day is skipped as already run.
THEOREM MarkedDaysHaveJobs == Spec => []MarkedDayHasItsJob
<1>1. Init => Exclusive /\ Punctual
    <2> SUFFICES ASSUME Init
                 PROVE  OneHolder /\ OneActivePerDay /\ JobsOfToday /\ ListsOfToday
                        /\ MarkedDayHasItsJob
        BY InitTypes DEF Exclusive, Punctual
    <2> QED BY DEF Init, Queue!Init, OneHolder, OneActivePerDay, JobsOfToday, ListsOfToday,
                   MarkedDayHasItsJob, Active
<1>2. Exclusive /\ Punctual /\ [Next]_vars => (Exclusive /\ Punctual)'
    BY NextExclusive, NextToday DEF Exclusive
<1>3. Punctual => MarkedDayHasItsJob
    BY DEF Punctual
<1> QED BY <1>1, <1>2, <1>3, PTL DEF Spec

-----------------------------------------------------------------------------
\* Second jobs of a day.

\* Jobs, lists and marks are of days that have come, and a settled job has its
\* outcome.
NoneAhead == /\ \A j \in JobIds : day[j] <= today[schedule[j]]
             /\ \A w \in Workers : \A x \in due[w] : x[2] <= today[x[1]]
             /\ \A s \in Schedules : lastRun[s] <= today[s]

Settled == \A j \in JobIds : IF phase[j] = "settled" THEN outcome[j] \in {"completed", "dead"}
                                                     ELSE outcome[j] = "none"

\* Jobs are inserted in the order of their identifiers.
InOrder == \A i, j \in JobIds : i < j /\ Known(j) => Known(i)

\* Until a fault, a pipeline that completed left its day marked,
CompletedIsMarked ==
    faults = 0 =>
       /\ \A j \in JobIds : outcome[j] = "completed" => day[j] <= lastRun[schedule[j]]
       /\ \A w \in Workers : pc[w] = "report" /\ result[w] = "ok" => day[Job(w)] <= lastRun[Of(w)]

\* and a day is listed only while its jobs are active or dead.
ListedIsUnrun ==
    /\ \A w \in Workers : pc[w] # "enqueueing" => due[w] = {}
    /\ faults = 0 =>
          \A w \in Workers : \A x \in due[w] : \A j \in JobIds :
             Known(j) /\ schedule[j] = x[1] /\ day[j] = x[2] => Active(j) \/ outcome[j] = "dead"

\* The inductive invariant behind DuplicatesAreFaults.
Explained == /\ TypeOK /\ NoneAhead /\ Settled /\ InOrder
             /\ CompletedIsMarked /\ ListedIsUnrun /\ DuplicatesAreFaults

\* No job is known at first.
LEMMA ExplainedInit == Init => Explained
<1> SUFFICES ASSUME Init PROVE Explained
    OBVIOUS
<1>1. TypeOK
    BY InitTypes
<1>2. \A j \in JobIds : phase[j] = "unknown" /\ outcome[j] = "none" /\ day[j] = 0
    BY DEF Init, Queue!Init
<1>3. NoneAhead
    BY <1>1, <1>2 DEF Init, NoneAhead, TypeOK, JobType
<1>4. Settled /\ InOrder /\ DuplicatesAreFaults
    BY <1>2 DEF Settled, InOrder, DuplicatesAreFaults, Known
<1>5. CompletedIsMarked /\ ListedIsUnrun
    BY <1>2 DEF Init, CompletedIsMarked, ListedIsUnrun
<1> QED BY <1>1, <1>3, <1>4, <1>5 DEF Explained

\* A step that neither inserts nor settles a job, and lists and marks no day,
\* explains as much as before, unless it is a fault.
LEMMA SameExplained ==
    ASSUME Explained, TypeOK', UNCHANGED <<lastRun, schedule, day, outcome>>,
           \A s \in Schedules : today[s] <= today'[s],
           faults' = faults \/ faults' > 0,
           \A j \in JobIds : /\ Known(j)' <=> Known(j)
                             /\ phase'[j] = "settled" <=> phase[j] = "settled",
           \A w \in Workers : due'[w] \subseteq due[w] /\ (pc'[w] # "enqueueing" => due'[w] = {}),
           \A w \in Workers : pc'[w] = "report" /\ result'[w] = "ok" =>
              faults' > 0 \/ (pc[w] = "report" /\ result[w] = "ok" /\ at'[w] = at[w])
    PROVE  Explained'
<1> USE DEF Explained
<1>1. NoneAhead'
    <2>1. ASSUME NEW j \in JobIds PROVE day'[j] <= today'[schedule'[j]]
        BY DEF NoneAhead, TypeOK, JobType, TimeType, Days
    <2>2. ASSUME NEW w \in Workers, NEW x \in due'[w] PROVE x[2] <= today'[x[1]]
        <3>1. x \in due[w] /\ x[1] \in Schedules /\ x[2] \in Days /\ x[2] <= today[x[1]]
            BY DEF NoneAhead, TypeOK, LoopType
        <3> QED BY <3>1 DEF TypeOK, TimeType, Days
    <2>3. ASSUME NEW s \in Schedules PROVE lastRun'[s] <= today'[s]
        BY DEF NoneAhead, TypeOK, TableType, TimeType, Days
    <2> QED BY <2>1, <2>2, <2>3 DEF NoneAhead
<1>2. Settled' /\ InOrder'
    BY DEF Settled, InOrder
<1>3. CompletedIsMarked'
    BY DEF CompletedIsMarked, Job, Of, TypeOK, LoopType
<1>4. \A j \in JobIds : (Active(j) <=> Known(j) /\ phase[j] # "settled")
                        /\ (Active(j)' <=> Known(j)' /\ phase'[j] # "settled")
    BY DEF Active, Known, TypeOK, QueueType
<1>5. ListedIsUnrun'
    BY <1>4 DEF ListedIsUnrun, TypeOK, LoopType
<1>6. DuplicatesAreFaults'
    BY DEF DuplicatesAreFaults, SameDay
<1> QED BY <1>1, <1>2, <1>3, <1>5, <1>6

\* The next job is explained when it is of a manual run, or of a day that is
\* listed and whose earlier jobs are all dead.
LEMMA InsertExplained ==
    ASSUME Exclusive, Explained, TypeOK', NEW j \in JobIds, NEW s \in Schedules,
    NEW d \in 0..MaxDays,
           Insert(j, s, d), UNCHANGED <<today, lastRun, pc, at, result, faults>>,
           d <= today[s],
           \A w \in Workers : due'[w] \subseteq due[w],
           faults = 0 /\ d # 0 => \A i \in JobIds : Known(i) /\ schedule[i] = s /\ day[i] = d =>
                                     outcome[i] = "dead"
    PROVE  Explained'
<1> USE DEF Explained
<1>1. /\ phase[j] = "unknown" /\ \A i \in JobIds : i < j => Known(i)
      /\ \A i \in JobIds : phase'[i] = IF i = j THEN "open" ELSE phase[i]
      /\ \A i \in JobIds : schedule'[i] = IF i = j THEN s ELSE schedule[i]
      /\ \A i \in JobIds : day'[i] = IF i = j THEN d ELSE day[i]
      /\ outcome' = outcome /\ outcome[j] = "none"
    BY DEF Insert, NextId, Queue!Submit, Known, TypeOK, QueueType, JobType, Settled
<1>2. NoneAhead'
    BY <1>1 DEF NoneAhead
<1>3. Settled'
    BY <1>1 DEF Settled
<1>4. InOrder'
    BY <1>1 DEF InOrder, Known
<1>5. CompletedIsMarked'
    <2>1. ASSUME faults = 0, NEW i \in JobIds, outcome'[i] = "completed"
          PROVE  day'[i] <= lastRun'[schedule'[i]]
        BY <1>1, <2>1 DEF CompletedIsMarked
    <2>2. ASSUME faults = 0, NEW w \in Workers, pc[w] = "report", result[w] = "ok"
          PROVE  day'[at[w]] <= lastRun[schedule'[at[w]]]
        <3>1. at[w] \in JobIds /\ day[at[w]] <= lastRun[schedule[at[w]]]
            BY <2>2 DEF CompletedIsMarked, Job, Of, TypeOK, HoldsItsJob, Running
        <3>2. at[w] # j
            BY <1>1, <2>2 DEF Exclusive, OneHolder, TypeOK, HoldsItsJob, Running
        <3> QED BY <1>1, <3>1, <3>2
    <2> QED BY <2>1, <2>2 DEF CompletedIsMarked, Job, Of
<1>6. ListedIsUnrun'
    BY <1>1 DEF ListedIsUnrun, Known, Active
<1>7. DuplicatesAreFaults'
    <2> SUFFICES ASSUME NEW i \in JobIds, NEW k \in JobIds, i < k, Known(k)', SameDay(i, k)',
                        ~(faults > 0)
                 PROVE  outcome[i] = "dead"
        BY <1>1 DEF DuplicatesAreFaults
    <2>1. faults = 0
        BY DEF TypeOK, LoopType
    <2>2. CASE k = j
        BY <1>1, <2>1, <2>2 DEF SameDay, JobIds
    <2>3. CASE k # j
        <3>1. Known(k) /\ i # j
            BY <1>1, <2>3 DEF Known, InOrder
        <3> QED BY <1>1, <2>1, <2>3, <3>1 DEF SameDay, DuplicatesAreFaults
    <2> QED BY <2>2, <2>3
<1> QED BY <1>2, <1>3, <1>4, <1>5, <1>6, <1>7

\* The steps that neither insert nor settle a job, and list and mark no day.
LEMMA QuietExplained ==
    ASSUME Exclusive, Explained, TypeOK',
           \/ \E s \in Schedules : Midnight(s) \/ TimePasses(s) \/ MessagesArrive(s) \/ SetEnabled(s)
           \/ \E j \in JobIds : BackoffEnds(j) \/ LeaseExpires(j)
           \/ \E w \in Workers : \/ Drain(w) \/ Claim(w) \/ NothingToClaim(w)
                                 \/ Collect(w) \/ Summarize(w) \/ Export(w)
                                 \/ StepFails(w) \/ EnqueueFails(w) \/ MarkFails(w) \/ Stop(w)
           \/ UNCHANGED vars
    PROVE  Explained'
<1> USE DEF timeVars, tableVars, queueVars, jobVars, loopVars, Outside
<1> TypeOK
    BY DEF Explained
<1>1. ASSUME UNCHANGED <<pc, due, at, result, lastRun, schedule, day, outcome, faults>>,
             \A s \in Schedules : today[s] <= today'[s],
             \A j \in JobIds : /\ Known(j)' <=> Known(j)
                               /\ phase'[j] = "settled" <=> phase[j] = "settled"
      PROVE  Explained'
    <2>1. \A w \in Workers : due'[w] \subseteq due[w] /\ (pc'[w] # "enqueueing" => due'[w] = {})
        BY <1>1 DEF Explained, ListedIsUnrun
    <2> QED BY <1>1, <2>1, SameExplained
<1>2. \A s \in Schedules : today[s] \in Int
    BY DEF TypeOK, TimeType, Days
<1>3. ASSUME NEW s \in Schedules,
             Midnight(s) \/ TimePasses(s) \/ MessagesArrive(s) \/ SetEnabled(s)
      PROVE  Explained'
    <2>1. \A z \in Schedules : today[z] <= today'[z]
        BY <1>2, <1>3 DEF Midnight, TimePasses, MessagesArrive, SetEnabled, TypeOK, TimeType
    <2>2. UNCHANGED <<pc, due, at, result, lastRun, phase, schedule, day, outcome, faults>>
        BY <1>3 DEF Midnight, TimePasses, MessagesArrive, SetEnabled
    <2> QED BY <1>1, <2>1, <2>2 DEF Known
<1>4. ASSUME NEW j \in JobIds, BackoffEnds(j) \/ LeaseExpires(j) PROVE Explained'
    <2>1. UNCHANGED <<pc, due, at, result, today, lastRun, schedule, day, outcome, faults>>
        BY <1>4 DEF BackoffEnds, LeaseExpires
    <2>2. \A i \in JobIds : /\ Known(i)' <=> Known(i)
                            /\ phase'[i] = "settled" <=> phase[i] = "settled"
        BY <1>4 DEF BackoffEnds, LeaseExpires, Queue!Reopen, Known, TypeOK, QueueType
    <2> QED BY <1>1, <1>2, <2>1, <2>2
<1>5. ASSUME NEW w \in Workers,
             \/ Drain(w) \/ Claim(w) \/ NothingToClaim(w)
             \/ Collect(w) \/ Summarize(w) \/ Export(w)
             \/ StepFails(w) \/ EnqueueFails(w) \/ MarkFails(w) \/ Stop(w)
      PROVE  Explained'
    <2>1. UNCHANGED <<today, lastRun, schedule, day, outcome>>
        BY <1>5 DEF Drain, Claim, NothingToClaim, Collect, Summarize, Export, StepFails,
                    EnqueueFails, MarkFails, Stop
    <2>2. faults' = faults \/ faults' > 0
        BY <1>5 DEF Drain, Claim, NothingToClaim, Collect, Summarize, Export, StepFails,
                    EnqueueFails, MarkFails, Stop, Fault, TypeOK, LoopType
    <2>3. \A j \in JobIds : /\ Known(j)' <=> Known(j)
                            /\ phase'[j] = "settled" <=> phase[j] = "settled"
        BY <1>5 DEF Drain, Claim, NothingToClaim, Collect, Summarize, Export, StepFails,
                    EnqueueFails, MarkFails, Stop, Queue!Take, Queue!Abandon, Known, TypeOK,
                    QueueType
    <2>4. \A v \in Workers \ {w} : UNCHANGED <<pc[v], due[v], at[v], result[v]>>
        BY <1>5 DEF Drain, Claim, NothingToClaim, Collect, Summarize, Export, StepFails,
                    EnqueueFails, MarkFails, Stop, Goto, TypeOK, LoopType
    <2>5. due'[w] = {}
        BY <1>5, SchedulerAssumption
           DEF Drain, Claim, NothingToClaim, Collect, Summarize, Export, StepFails, EnqueueFails,
               MarkFails, Stop, Steps, TypeOK, LoopType, Explained, ListedIsUnrun
    <2>6. pc'[w] = "report" /\ result'[w] = "ok" => faults' > 0
        BY <1>5, SchedulerAssumption
           DEF Drain, Claim, NothingToClaim, Collect, Summarize, Export, StepFails, EnqueueFails,
               MarkFails, Stop, Fault, Goto, TypeOK, LoopType
    <2>7. \A v \in Workers : due'[v] \subseteq due[v] /\ (pc'[v] # "enqueueing" => due'[v] = {})
        BY <2>4, <2>5 DEF Explained, ListedIsUnrun
    <2>8. \A v \in Workers : pc'[v] = "report" /\ result'[v] = "ok" =>
             faults' > 0 \/ (pc[v] = "report" /\ result[v] = "ok" /\ at'[v] = at[v])
        BY <2>4, <2>6
    <2> QED BY <1>2, <2>1, <2>2, <2>3, <2>7, <2>8, SameExplained
<1>6. CASE UNCHANGED vars
    BY <1>1, <1>2, <1>6 DEF vars, Known
<1> QED BY <1>3, <1>4, <1>5, <1>6

\* A day is listed while it is not marked, so the jobs it has are active or dead.
LEMMA ListExplained ==
    ASSUME OneWorker, Explained, TypeOK', NEW w \in Workers, ListDue(w)
    PROVE  Explained'
<1> USE DEF Explained
<1>1. UNCHANGED <<timeVars, tableVars, queueVars, jobVars, at, result, faults>>
    BY DEF ListDue
<1> USE DEF timeVars, tableVars, queueVars, jobVars
<1>2. /\ due'[w] = {<<s, today[s]>> : s \in {z \in Schedules : IsDue(z)}}
      /\ pc'[w] = "enqueueing"
    BY DEF ListDue, TypeOK, LoopType
<1>3. ASSUME NEW x \in due'[w]
      PROVE  x[1] \in Schedules /\ x[2] = today[x[1]] /\ lastRun[x[1]] < today[x[1]]
    <2>1. PICK s \in Schedules : IsDue(s) /\ x = <<s, today[s]>>
        BY <1>2, <1>3
    <2> QED BY <2>1 DEF IsDue, NoneAhead, TypeOK, TableType, TimeType, Days
<1>4. NoneAhead'
    <2>1. \A v \in Workers : \A x \in due'[v] : x[2] <= today'[x[1]]
        BY <1>1, <1>3 DEF OneWorker, TypeOK, TimeType, Days
    <2> QED BY <1>1, <2>1 DEF NoneAhead
<1>5. ListedIsUnrun'
    <2> SUFFICES ASSUME faults = 0, NEW x \in due'[w], NEW j \in JobIds, Known(j),
                        schedule[j] = x[1], day[j] = x[2]
                 PROVE  Active(j) \/ outcome[j] = "dead"
        BY <1>1, <1>2 DEF ListedIsUnrun, OneWorker, Known, Active
    <2>1. outcome[j] # "completed"
        BY <1>3 DEF CompletedIsMarked, TypeOK, TableType, TimeType, Days
    <2>2. phase[j] = "settled" => outcome[j] = "dead"
        BY <2>1 DEF Settled
    <2> QED BY <2>2 DEF Known, Active, TypeOK, QueueType
<1>6. CompletedIsMarked'
    BY <1>1, <1>2 DEF CompletedIsMarked, OneWorker, Job, Of
<1>7. Settled' /\ InOrder' /\ DuplicatesAreFaults'
    BY <1>1 DEF Settled, InOrder, DuplicatesAreFaults, Known, SameDay
<1> QED BY <1>4, <1>5, <1>6, <1>7

\* The only worker inserts what it listed before it runs anything.
LEMMA EnqueueExplained ==
    ASSUME Exclusive, Explained, TypeOK', NEW w \in Workers, Enqueue(w)
    PROVE  Explained'
<1> TypeOK
    BY DEF Explained
<1>1. PICK x \in due[w] :
        /\ due' = [due EXCEPT ![w] = @ \ {x}]
        /\ IF KeyFree(x[1], x[2])
           THEN \E j \in JobIds : Insert(j, x[1], x[2])
           ELSE UNCHANGED <<queueVars, jobVars>>
    BY DEF Enqueue
<1>2. UNCHANGED <<timeVars, tableVars, pc, at, result, faults>> /\ pc[w] = "enqueueing"
    BY DEF Enqueue
<1>3. x[1] \in Schedules /\ x[2] \in 0..MaxDays /\ x[2] <= today[x[1]]
    BY SchedulerAssumption DEF TypeOK, LoopType, Days, Explained, NoneAhead
<1>4. \A v \in Workers : due'[v] \subseteq due[v] /\ (pc'[v] # "enqueueing" => due'[v] = {})
    BY <1>1, <1>2 DEF TypeOK, LoopType, Explained, ListedIsUnrun
<1>5. CASE KeyFree(x[1], x[2])
    <2>1. PICK j \in JobIds : Insert(j, x[1], x[2])
        BY <1>1, <1>5
    <2>2. faults = 0 => \A i \in JobIds : Known(i) /\ schedule[i] = x[1] /\ day[i] = x[2] =>
                           outcome[i] = "dead"
        BY <1>5 DEF KeyFree, Explained, ListedIsUnrun
    <2>3. UNCHANGED <<today, lastRun, pc, at, result, faults>>
        BY <1>2 DEF timeVars, tableVars
    <2> QED BY <1>3, <1>4, <2>1, <2>2, <2>3, InsertExplained
<1>6. CASE ~KeyFree(x[1], x[2])
    <2>1. UNCHANGED <<today, lastRun, phase, schedule, day, outcome, pc, at, result, faults>>
        BY <1>1, <1>2, <1>6 DEF timeVars, tableVars, queueVars, jobVars
    <2>2. \A s \in Schedules : today[s] <= today'[s]
        BY <2>1 DEF TypeOK, TimeType, Days
    <2> QED BY <1>4, <2>1, <2>2, SameExplained DEF Known
<1> QED BY <1>5, <1>6

\* A mark is of today, and the day of the job is not after it.
LEMMA MarkExplained ==
    ASSUME OneWorker, Explained, TypeOK', NEW w \in Workers, MarkScheduleRun(w)
    PROVE  Explained'
<1> USE DEF Explained
<1>1. /\ UNCHANGED <<today, phase, schedule, day, outcome, due, at, result, faults>>
      /\ pc[w] = "mark" /\ pc'[w] = "report"
      /\ at[w] \in JobIds /\ Of(w) \in Schedules
      /\ \A s \in Schedules : lastRun'[s] = IF s = Of(w) THEN today[s] ELSE lastRun[s]
    BY DEF MarkScheduleRun, Outside, Goto, Of, timeVars, queueVars, jobVars, TypeOK, TableType,
           LoopType, JobType, HoldsItsJob, Running
<1>2. \A s \in Schedules : /\ lastRun[s] <= lastRun'[s] /\ lastRun'[s] <= today'[s]
                           /\ lastRun[s] \in Int /\ lastRun'[s] \in Int
    BY <1>1 DEF NoneAhead, TypeOK, TableType, TimeType, Days
<1>3. \A j \in JobIds : day[j] \in Int /\ schedule[j] \in Schedules
    BY DEF TypeOK, JobType
<1>4. NoneAhead'
    BY <1>1, <1>2 DEF NoneAhead
<1>5. CompletedIsMarked'
    <2>1. ASSUME faults = 0, NEW j \in JobIds, outcome[j] = "completed"
          PROVE  day[j] <= lastRun'[schedule[j]]
        BY <1>2, <1>3, <2>1 DEF CompletedIsMarked
    <2>2. day[at[w]] <= lastRun'[Of(w)]
        BY <1>1 DEF NoneAhead, Of
    <2> QED BY <1>1, <2>1, <2>2 DEF CompletedIsMarked, OneWorker, Job, Of
<1>6. ListedIsUnrun'
    <2>1. \A v \in Workers : due[v] = {}
        BY <1>1 DEF ListedIsUnrun, OneWorker
    <2> QED BY <1>1, <2>1 DEF ListedIsUnrun
<1>7. Settled' /\ InOrder' /\ DuplicatesAreFaults'
    BY <1>1 DEF Settled, InOrder, DuplicatesAreFaults, Known, SameDay
<1> QED BY <1>4, <1>5, <1>6, <1>7

\* A job is settled as completed once its day is marked.
LEMMA ReportExplained ==
    ASSUME OneWorker, Exclusive, Explained, TypeOK', NEW w \in Workers, Report(w)
    PROVE  Explained'
<1> USE DEF Explained
<1> DEFINE j == at[w]
<1>1. j \in JobIds /\ phase[j] = "held" /\ pc[w] = "report" /\ pc'[w] = "draining"
    <2>1. at[w] \in JobIds /\ holders[at[w]] = {w}
        BY ReportTypes
    <2>2. pc[w] = "report" /\ pc'[w] = "draining"
        BY DEF Report, Goto, TypeOK, LoopType
    <2> QED BY <2>1, <2>2 DEF Exclusive, OneHolder
<1>2. UNCHANGED <<today, lastRun, schedule, day, due, faults>>
    BY DEF Report, timeVars, tableVars
<1>3. \/ /\ phase' = [phase EXCEPT ![j] = "settled"]
         /\ \/ outcome' = [outcome EXCEPT ![j] = "completed"] /\ result[w] = "ok"
            \/ outcome' = [outcome EXCEPT ![j] = "dead"]
      \/ phase' = [phase EXCEPT ![j] = "open"] /\ outcome' = outcome
    BY DEF Report, Settle, GiveBack, Job, Queue!Report
<1>4. outcome[j] = "none"
    BY <1>1 DEF Settled
<1>5. \A i \in JobIds \ {j} : UNCHANGED <<phase[i], outcome[i]>>
    BY <1>3 DEF TypeOK, QueueType, JobType
<1>6. \/ phase'[j] = "settled" /\ outcome'[j] = "completed" /\ result[w] = "ok"
      \/ phase'[j] = "settled" /\ outcome'[j] = "dead"
      \/ phase'[j] = "open" /\ outcome'[j] = "none"
    BY <1>1, <1>3, <1>4 DEF TypeOK, QueueType, JobType
<1>7. NoneAhead'
    BY <1>2 DEF NoneAhead
<1>8. Settled'
    BY <1>5, <1>6 DEF Settled
<1>9. \A i \in JobIds : Known(i)' <=> Known(i)
    BY <1>1, <1>5, <1>6 DEF Known
<1>10. InOrder'
    BY <1>9 DEF InOrder
<1>11. CompletedIsMarked'
    <2>1. ASSUME faults = 0, NEW i \in JobIds, outcome'[i] = "completed"
          PROVE  day[i] <= lastRun[schedule[i]]
        <3>1. CASE i = j
            BY <1>1, <1>6, <2>1, <3>1 DEF CompletedIsMarked, Job, Of
        <3>2. CASE i # j
            BY <1>5, <2>1, <3>2 DEF CompletedIsMarked
        <3> QED BY <3>1, <3>2
    <2> QED BY <1>1, <1>2, <2>1 DEF CompletedIsMarked, OneWorker
<1>12. ListedIsUnrun'
    <2>1. \A v \in Workers : due[v] = {}
        BY <1>1 DEF ListedIsUnrun, OneWorker
    <2> QED BY <1>2, <2>1 DEF ListedIsUnrun
<1>13. DuplicatesAreFaults'
    <2>1. \A i \in JobIds : outcome[i] = "dead" => outcome'[i] = "dead"
        BY <1>4, <1>5
    <2> QED BY <1>2, <1>9, <2>1 DEF DuplicatesAreFaults, SameDay
<1> QED BY <1>7, <1>8, <1>10, <1>11, <1>12, <1>13

\* With one worker, whatever fails and although days may end before their runs, a
\* day has a second job only after a fault or when the first one's pipeline died.
THEOREM DuplicatesExplained ==
    ASSUME OneWorker PROVE Spec => []DuplicatesAreFaults
<1>1. Init => Exclusive
    <2> SUFFICES ASSUME Init PROVE OneHolder /\ OneActivePerDay
        BY InitTypes DEF Exclusive
    <2> QED BY DEF Init, Queue!Init, OneHolder, OneActivePerDay, Active
<1>2. ASSUME Exclusive, Explained, TypeOK', [Next]_vars PROVE Explained'
    <2>1. ASSUME NEW s \in Schedules, RunNow(s) PROVE Explained'
        <3>1. PICK j \in JobIds : Insert(j, s, 0)
            BY <2>1 DEF RunNow
        <3>2. UNCHANGED <<today, lastRun, pc, at, result, faults>> /\ due' = due
            BY <2>1 DEF RunNow, timeVars, tableVars, loopVars
        <3>3. 0 <= today[s] /\ 0 \in 0..MaxDays
            BY <1>2, SchedulerAssumption DEF Explained, TypeOK, TimeType, Days
        <3> QED BY <1>2, <3>1, <3>2, <3>3, InsertExplained
    <2>2. ASSUME NEW w \in Workers,
                 ListDue(w) \/ Enqueue(w) \/ MarkScheduleRun(w) \/ Report(w)
          PROVE  Explained'
        BY <1>2, <2>2, ListExplained, EnqueueExplained, MarkExplained, ReportExplained
    <2> QED BY <1>2, <2>1, <2>2, QuietExplained DEF Next, Loop, RunSchedule
<1>3. Explained => DuplicatesAreFaults
    BY DEF Explained
<1> QED BY <1>1, <1>2, <1>3, ExplainedInit, NextExclusive, TypeCorrect, PTL DEF Spec

-----------------------------------------------------------------------------
\* The queue.

\* Every step of the polls, workers and owner is a step of the queue or none.
LEMMA QueueStep ==
    ASSUME TypeOK, [Next]_vars PROVE [Queue!Next]_(Queue!vars)
<1> USE DEF queueVars, Queue!vars
<1>1. ASSUME NEW s \in Schedules, RunNow(s) PROVE Queue!Next
    <2>1. PICK j \in JobIds : Queue!Submit(j)
        BY <1>1 DEF RunNow, Insert
    <2> QED BY <2>1 DEF Queue!Next
<1>2. ASSUME NEW w \in Workers, Enqueue(w) PROVE Queue!Next \/ UNCHANGED queueVars
    <2>1. CASE \E j \in JobIds : Queue!Submit(j)
        BY <2>1 DEF Queue!Next
    <2>2. CASE UNCHANGED queueVars
        BY <2>2
    <2> QED BY <1>2, <2>1, <2>2 DEF Enqueue, Insert
<1>3. ASSUME NEW w \in Workers, Claim(w) PROVE Queue!Next
    <2>1. PICK j \in JobIds : Queue!Take(j, w)
        BY <1>3 DEF Claim
    <2> QED BY <2>1 DEF Queue!Next
<1>4. ASSUME NEW j \in JobIds, LeaseExpires(j) PROVE Queue!Next
    <2>1. Queue!Reopen({j}) /\ {j} \in SUBSET JobIds
        BY <1>4 DEF LeaseExpires
    <2> QED BY <2>1 DEF Queue!Next
<1>5. ASSUME NEW w \in Workers, Report(w) PROVE Queue!Next
    <2>1. at[w] \in JobIds
        BY <1>5, ReportTypes
    <2>2. Queue!Report(at[w], w, "settled") \/ Queue!Report(at[w], w, "open")
        BY <1>5 DEF Report, Settle, GiveBack, Job
    <2> QED BY <2>1, <2>2 DEF Queue!Next
<1>6. ASSUME NEW w \in Workers, Stop(w) PROVE Queue!Next
    <2>1. Queue!Abandon(w)
        BY <1>6 DEF Stop
    <2> QED BY <2>1 DEF Queue!Next
<1>7. ASSUME NEW w \in Workers, RunSchedule(w) \/ StepFails(w) \/ MarkFails(w)
      PROVE  UNCHANGED queueVars
    BY <1>7 DEF RunSchedule, Collect, Summarize, Export, MarkScheduleRun, StepFails, MarkFails,
                Outside
<1>8. ASSUME NEW s \in Schedules,
             Midnight(s) \/ TimePasses(s) \/ MessagesArrive(s) \/ SetEnabled(s)
      PROVE  UNCHANGED queueVars
    BY <1>8 DEF Midnight, TimePasses, MessagesArrive, SetEnabled
<1>9. ASSUME NEW w \in Workers, ListDue(w) \/ Drain(w) \/ EnqueueFails(w) \/ NothingToClaim(w)
      PROVE  UNCHANGED queueVars
    BY <1>9 DEF ListDue, Drain, EnqueueFails, NothingToClaim
<1>10. ASSUME NEW j \in JobIds, BackoffEnds(j) PROVE UNCHANGED queueVars
    BY <1>10 DEF BackoffEnds
<1>11. UNCHANGED vars => UNCHANGED queueVars
    BY DEF vars
<1> QED BY <1>1, <1>2, <1>3, <1>4, <1>5, <1>6, <1>7, <1>8, <1>9, <1>10, <1>11 DEF Next, Loop

\* Polls, pipelines and restarts do with the queue only what its promise allows:
\* no worker reports a job it does not hold, holds two, or settles one twice.
THEOREM QueueIsRespected == Spec => Queue!Spec
<1>1. Init => Queue!Init
    BY DEF Init
<1> QED BY <1>1, QueueStep, TypeCorrect, PTL DEF Spec, Queue!Spec
=============================================================================
