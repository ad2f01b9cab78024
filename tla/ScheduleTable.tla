---------------------------- MODULE ScheduleTable ----------------------------
(***************************************************************************)
(* The schedules of the owner: the requests that create, change, delete    *)
(* and run them (internal/schedules/service.go, the buttons of             *)
(* internal/telegram/bot/schedules.go), the table they share               *)
(* (storage/postgres/schedules.go, migrations/005), the pass of the        *)
(* scheduler that lists it and the pipeline that records its runs in it    *)
(* (internal/scheduler/service.go).                                        *)
(*                                                                         *)
(* A time is the text of the row: a time of day with its timezone, padded  *)
(* ("09:00") or, before ten, short ("9:00"); both are accepted and run at  *)
(* the same moment.  enabled stands for itself and for the other settings  *)
(* that no two rows are compared by.                                       *)
(***************************************************************************)
EXTENDS Integers, Sequences

CONSTANTS
    Requests,
    Groups,
    NoGroup,
    Clocks,       \* times of day
    Early,        \* those before ten
    NoTime,
    Forms,        \* the combinations of settings that requests give
    MaxSchedules, \* bound: schedules ever created
    MaxRuns,      \* bound: runs ever recorded
    MaxEvents     \* bound: changes, deletions and runs the owner asks for, failed calls and crashes

\* The texts that validTime accepts.
Padded == Clocks \X {"padded"}
Times  == Padded \cup (Early \X {"short"})

ASSUME ScheduleTableAssumption ==
    /\ NoGroup \notin Groups
    /\ Early \subseteq Clocks
    /\ NoTime \notin Times
    /\ Forms \subseteq SUBSET {"group", "time", "enabled"}
    /\ MaxSchedules \in Nat
    /\ MaxRuns \in Nat
    /\ MaxEvents \in Nat

ScheduleIds == 1..MaxSchedules
RunIds      == 1..MaxRuns

VARIABLES
    groups,     \* source_groups
    \* summary_schedules; a schedule without a row has NoGroup
    count, group, time, enabled,
    ranToday,   \* schedules whose last_run_at is of the current day
    \* schedule_runs: the schedule of each run, 0 for a run without a row
    runCount, runOf,
    \* the scheduler and the worker
    pass,       \* what the pass has listed and not yet enqueued
    jobs,       \* schedules of the pipelines in the queue, copied into their payloads
    run,        \* the run under way and its schedule
    \* each request
    pc, local,
    \* ghosts
    wanted,     \* what the owner may take the settings of each schedule for
    after,      \* the jobs of each schedule enqueued since the owner knows it is off
    stale,      \* changes whose copy was read before another one of the row was stored
    met,        \* requests that found a time free while another one had
    unseen,     \* schedules these created or whose group or time was changed
    undone,     \* schedules of the batches that do not succeed
    blame,      \* the event that kept one of them, 0 for none
    deaths,     \* the events in which a request died
    events

rowVars   == <<count, group, time, enabled, ranToday>>
runVars   == <<runCount, runOf>>
workVars  == <<pass, jobs, run>>
editVars  == <<wanted, after, stale>>
batchVars == <<met, unseen, undone, blame, deaths>>
vars == <<groups, rowVars, runVars, workVars, pc, local, editVars, batchVars, events>>

Control  == {"idle", "list", "insert", "undo", "update"}
Settings == [group : Groups \cup {NoGroup}, time : Times \cup {NoTime}, enabled : BOOLEAN]

NoSettings == [group |-> NoGroup, time |-> NoTime, enabled |-> FALSE]

\* The API and /schedule_create ask for one schedule, the buttons for up to three at
\* different times, all of them padded.
Batches == {<<t>> : t \in Times}
      \cup {b \in Padded \X Padded : b[1] # b[2]}
      \cup {b \in Padded \X Padded \X Padded : b[1] # b[2] /\ b[1] # b[3] /\ b[2] # b[3]}

\* A batch holds the times to come and the schedules made, a change of a schedule the
\* copy of its row, already changed.
NoLocals == [todo |-> << >>, made |-> {}, id |-> 0, given |-> {}, copy |-> NoSettings]

Init == /\ groups = Groups
        /\ count = 0
        /\ group = [s \in ScheduleIds |-> NoGroup]
        /\ time = [s \in ScheduleIds |-> NoTime]
        /\ enabled = [s \in ScheduleIds |-> FALSE]
        /\ ranToday = {}
        /\ runCount = 0
        /\ runOf = [n \in RunIds |-> 0]
        /\ pass = {}
        /\ jobs = {}
        /\ run = <<0, 0>>
        /\ pc = [r \in Requests |-> "idle"]
        /\ local = [r \in Requests |-> NoLocals]
        /\ wanted = [s \in ScheduleIds |-> {}]
        /\ after = [s \in ScheduleIds |-> 0]
        /\ stale = {}
        /\ met = {} /\ unseen = {} /\ undone = {}
        /\ blame = [s \in ScheduleIds |-> 0]
        /\ deaths = {}
        /\ events = 0

Goes(r, l, x) == /\ pc' = [pc EXCEPT ![r] = l]
                 /\ local' = [local EXCEPT ![r] = x]

Ends(r) == Goes(r, "idle", NoLocals)

Event == events < MaxEvents /\ events' = events + 1

Exists(s)  == group[s] # NoGroup
Row(s)     == [group |-> group[s], time |-> time[s], enabled |-> enabled[s]]

\* Whatever the owner takes the settings for, the schedule is off.
Off(s)     == Exists(s) /\ \A w \in wanted[s] : ~w.enabled

\* From now on the owner may take the settings for those of W.
Tells(s, W) == /\ wanted' = [wanted EXCEPT ![s] = W]
               /\ after' = [after EXCEPT ![s] = IF \A w \in W : ~w.enabled THEN @ ELSE 0]

\* A variant that compares the schedules that are enabled.
TakenByEnabled(g, t) == \E s \in ScheduleIds : group[s] = g /\ time[s] = t /\ enabled[s]

\* The texts are compared, not the times.
Taken(g, t) == \E s \in ScheduleIds : group[s] = g /\ time[s] = t

\* The runs go with their schedules, the schedules with their group.
DeleteRows(gone) ==
    /\ group' = [s \in ScheduleIds |-> IF s \in gone THEN NoGroup ELSE group[s]]
    /\ time' = [s \in ScheduleIds |-> IF s \in gone THEN NoTime ELSE time[s]]
    /\ enabled' = [s \in ScheduleIds |-> s \notin gone /\ enabled[s]]
    /\ ranToday' = ranToday \ gone
    /\ runOf' = [n \in RunIds |-> IF runOf[n] \in gone THEN 0 ELSE runOf[n]]
    /\ wanted' = [s \in ScheduleIds |-> IF s \in gone THEN {} ELSE wanted[s]]
    /\ after' = [s \in ScheduleIds |-> IF s \in gone THEN 0 ELSE after[s]]
    /\ blame' = [s \in ScheduleIds |-> IF s \in gone THEN 0 ELSE blame[s]]
    /\ unseen' = unseen \ gone /\ undone' = undone \ gone
    /\ UNCHANGED <<count, runCount, stale, deaths>>

-----------------------------------------------------------------------------
\* createSchedulesFromButtons, and Service.Create for each of its times: the table is
\* listed, the time compared, the row inserted.

\* The schedules made are to go, and so are those that it made without knowing.
Failing(r, unknown) ==
    /\ IF local[r].made = {} THEN Ends(r) ELSE Goes(r, "undo", local[r])
    /\ undone' = undone \cup local[r].made \cup unknown

createSchedules(r, g, b) ==
    /\ pc[r] = "idle"
    /\ count < MaxSchedules \* the bound: none of its schedules could be made
    /\ Goes(r, "list", [NoLocals EXCEPT !.todo = b, !.copy = [NoSettings EXCEPT !.group = g]])
    /\ UNCHANGED <<groups, rowVars, runVars, workVars, editVars, batchVars, events>>

SameSlot(q, r) == local[q].copy.group = local[r].copy.group /\ Head(local[q].todo) = Head(local[r].todo)

Inserting(r) == {q \in Requests \ {r} : pc[q] = "insert" /\ SameSlot(q, r)}

ListByUser(r) ==
    /\ pc[r] = "list"
    /\ IF Taken(local[r].copy.group, Head(local[r].todo))
       THEN Failing(r, {}) /\ met' = met
       ELSE /\ Goes(r, "insert", local[r])
            /\ met' = IF Inserting(r) = {} THEN met ELSE met \cup Inserting(r) \cup {r}
            /\ undone' = undone
    /\ UNCHANGED <<groups, rowVars, runVars, workVars, editVars, unseen, blame, deaths, events>>

\* What the requests of the buttons and, by default, of the API give.
Made(g, t) == [group |-> g, time |-> t, enabled |-> TRUE]

Insert(g, t) ==
    /\ count < MaxSchedules
    /\ count' = count + 1
    /\ group' = [group EXCEPT ![count'] = g]
    /\ time' = [time EXCEPT ![count'] = t]
    /\ enabled' = [enabled EXCEPT ![count'] = TRUE]
    /\ UNCHANGED ranToday

Create(r) ==
    /\ pc[r] = "insert"
    /\ local[r].copy.group \in groups
    /\ LET x == local[r]
           s == count + 1
           y == [x EXCEPT !.todo = Tail(x.todo), !.made = @ \cup {s}]
       IN  /\ Insert(x.copy.group, Head(x.todo))
           /\ Tells(s, {Made(x.copy.group, Head(x.todo))})
           /\ unseen' = IF r \in met THEN unseen \cup {s} ELSE unseen
           /\ IF Len(x.todo) = 1 THEN Ends(r) ELSE Goes(r, "list", y)
    /\ met' = met \ {r}
    /\ UNCHANGED <<groups, runVars, workVars, stale, undone, blame, deaths, events>>

\* The foreign key refuses a schedule of a group that is gone, the bound one too many.
CreateRefused(r) ==
    /\ pc[r] = "insert"
    /\ local[r].copy.group \notin groups \/ count = MaxSchedules
    /\ Failing(r, {})
    /\ met' = met \ {r}
    /\ UNCHANGED <<groups, rowVars, runVars, workVars, editVars, unseen, blame, deaths, events>>

\* A variant that deletes none.
KeepMade(r) ==
    /\ pc[r] = "undo"
    /\ Ends(r)
    /\ UNCHANGED <<groups, rowVars, runVars, workVars, editVars, batchVars, events>>

\* One that a request had to leave in this event.
Leave(s) == undone' = undone /\ blame' = [blame EXCEPT ![s] = events']

\* The schedules made are deleted in order; a deletion that fails is left at that.
RollBack(r) ==
    /\ pc[r] = "undo"
    /\ LET x == local[r]
           s == CHOOSE z \in x.made : \A y \in x.made : z <= y
       IN  /\ \/ DeleteRows({s}) /\ UNCHANGED events
              \/ Event /\ Leave(s) /\ UNCHANGED <<rowVars, runVars, editVars, unseen, deaths>>
           /\ IF x.made = {s} THEN Ends(r) ELSE Goes(r, "undo", [x EXCEPT !.made = @ \ {s}])
    /\ UNCHANGED <<groups, workVars, met>>

-----------------------------------------------------------------------------
\* Update and SetEnabled: the row is read, changed and written back whole, but for the
\* time of its last run.

Changing(s) == {q \in Requests : pc[q] = "update" /\ local[q].id = s}

\* Times and groups are given by Update, enabled also by SetEnabled.
Given(old, f, c) == [group   |-> IF "group" \in f THEN c.group ELSE old.group,
                     time    |-> IF "time" \in f THEN c.time ELSE old.time,
                     enabled |-> IF "enabled" \in f THEN c.enabled ELSE old.enabled]

\* What a request of a form may say.
Contents(f) == [group   : IF "group" \in f THEN Groups ELSE {NoGroup},
                time    : IF "time" \in f THEN Times ELSE {NoTime},
                enabled : IF "enabled" \in f THEN BOOLEAN ELSE {FALSE}]

requireSchedule(r, s, f, c) ==
    /\ pc[r] = "idle" /\ Exists(s)
    /\ Event
    /\ Goes(r, "update", [NoLocals EXCEPT !.id = s, !.given = f, !.copy = Given(Row(s), f, c)])
    /\ UNCHANGED <<groups, rowVars, runVars, workVars, editVars, batchVars>>

\* A variant that takes the last run from the copy too, which may be that of the day before.
StoreWithLastRun(s, c) ==
    /\ group' = [group EXCEPT ![s] = c.group]
    /\ time' = [time EXCEPT ![s] = c.time]
    /\ enabled' = [enabled EXCEPT ![s] = c.enabled]
    /\ ranToday' = ranToday \ {s}
    /\ UNCHANGED count

\* A variant that enables a schedule and never disables it.
StoreEnabling(s, c) ==
    /\ group' = [group EXCEPT ![s] = c.group]
    /\ time' = [time EXCEPT ![s] = c.time]
    /\ enabled' = [enabled EXCEPT ![s] = @ \/ c.enabled]
    /\ UNCHANGED <<count, ranToday>>

Store(s, c) ==
    /\ group' = [group EXCEPT ![s] = c.group]
    /\ time' = [time EXCEPT ![s] = c.time]
    /\ enabled' = [enabled EXCEPT ![s] = c.enabled]
    /\ UNCHANGED <<count, ranToday>>

\* The changes are applied to what the owner takes the settings for; a copy that is stale
\* brings back what the request does not give as it was when it was read.
Expected(r) == {Given(w, local[r].given, local[r].copy) : w \in wanted[local[r].id]}
                   \cup (IF r \in stale THEN {local[r].copy} ELSE {})

\* No time is compared with those of the other schedules.
Rewrite(r) ==
    /\ pc[r] = "update"
    /\ LET x == local[r]
       IN  /\ Exists(x.id) /\ x.copy.group \in groups
           /\ Store(x.id, x.copy)
           /\ unseen' = IF x.given \subseteq {"enabled"} THEN unseen ELSE unseen \cup {x.id}
           /\ stale' = (stale \cup Changing(x.id)) \ {r}
    /\ Ends(r)
    /\ UNCHANGED <<groups, runVars, workVars, met, undone, blame, deaths>>

Update(r) == Rewrite(r) /\ Tells(local[r].id, Expected(r)) /\ UNCHANGED events

\* The row is changed and the answer lost: the owner does not know which settings it has.
UpdateAnswerLost(r) ==
    /\ Rewrite(r)
    /\ Tells(local[r].id, wanted[local[r].id] \cup Expected(r))
    /\ Event

\* No row comes back for a schedule that is gone.
UpdateRefused(r) ==
    /\ pc[r] = "update"
    /\ ~Exists(local[r].id) \/ local[r].copy.group \notin groups
    /\ Ends(r)
    /\ stale' = stale \ {r}
    /\ UNCHANGED <<groups, rowVars, runVars, workVars, wanted, after, batchVars, events>>

\* Delete looks for the row first, which only changes its answer.
Delete(s) == /\ Exists(s)
             /\ Event
             /\ DeleteRows({s})
             /\ UNCHANGED <<groups, workVars, pc, local, met>>

\* sourcegroups.Service.Delete: a schedule goes with the group.
DeleteGroup(g) == /\ g \in groups
                  /\ Event
                  /\ groups' = groups \ {g}
                  /\ DeleteRows({s \in ScheduleIds : group[s] = g})
                  /\ UNCHANGED <<workVars, pc, local, met>>

\* Service.Run: the payload takes the schedule as it is, enabled or not.
Run(s) == /\ Exists(s)
          /\ jobs' = jobs \cup {s}
          /\ UNCHANGED <<groups, rowVars, runVars, pass, run, pc, local, editVars, batchVars, events>>

-----------------------------------------------------------------------------
\* The scheduler lists the schedules that are enabled, looks which are due and enqueues
\* these one by one; the worker runs the pipeline of the copy.

\* A variant that looks at the last run only.
DueAnyway(s) == Exists(s) /\ s \notin ranToday

Due(s) == Exists(s) /\ enabled[s] /\ s \notin ranToday

\* The time of day and the quiet hours choose among them.
ListEnabled(picked) ==
    /\ pass = {}
    /\ picked # {}
    /\ \A s \in picked : Due(s)
    /\ pass' = picked
    /\ UNCHANGED <<groups, rowVars, runVars, jobs, run, pc, local, editVars, batchVars, events>>

Enqueue(s) ==
    /\ s \in pass
    /\ pass' = pass \ {s}
    /\ jobs' = jobs \cup {s}
    /\ after' = IF Off(s) THEN [after EXCEPT ![s] = @ + 1] ELSE after
    /\ UNCHANGED <<groups, rowVars, runVars, run, pc, local, wanted, stale, batchVars, events>>

Collect(s) ==
    /\ s \in jobs /\ run = <<0, 0>>
    /\ runCount < MaxRuns
    /\ runCount' = runCount + 1
    /\ runOf' = [runOf EXCEPT ![runCount'] = s]
    /\ run' = <<runCount', s>>
    /\ jobs' = jobs \ {s}
    /\ UNCHANGED <<groups, rowVars, pass, pc, local, editVars, batchVars, events>>

CreateRun(s) == Exists(s) /\ Collect(s)

\* The job of a schedule that is gone fails for good.
CreateRunRefused(s) ==
    /\ s \in jobs /\ run = <<0, 0>>
    /\ ~Exists(s)
    /\ jobs' = jobs \ {s}
    /\ UNCHANGED <<groups, rowVars, runVars, pass, run, pc, local, editVars, batchVars, events>>

\* CompleteRun and, when the run succeeded, MarkScheduleRun.
EndRun(succeeded) ==
    /\ run # <<0, 0>>
    /\ LET s == run[2]
       IN  ranToday' = IF succeeded /\ Exists(s) THEN ranToday \cup {s} ELSE ranToday
    /\ run' = <<0, 0>>
    /\ UNCHANGED <<groups, count, group, time, enabled, runVars, pass, jobs, pc, local,
                   editVars, batchVars, events>>

NextDay == /\ ranToday' = {}
           /\ UNCHANGED <<groups, count, group, time, enabled, runVars, workVars, pc, local,
                          editVars, batchVars, events>>

-----------------------------------------------------------------------------
\* Calls that fail, answers that are lost, processes that die.

\* A statement of a batch fails, the others are undone.
CallFails(r) ==
    /\ pc[r] \in {"list", "insert"}
    /\ Event
    /\ Failing(r, {})
    /\ met' = met \ {r}
    /\ UNCHANGED <<groups, rowVars, runVars, workVars, editVars, unseen, blame, deaths>>

\* The row is inserted and the answer lost: the batch does not know of it.
CreateAnswerLost(r) ==
    /\ pc[r] = "insert"
    /\ local[r].copy.group \in groups
    /\ Event
    /\ Insert(local[r].copy.group, Head(local[r].todo))
    /\ Tells(count', {Made(local[r].copy.group, Head(local[r].todo))})
    /\ unseen' = IF r \in met THEN unseen \cup {count'} ELSE unseen
    /\ Failing(r, {count'})
    /\ blame' = [blame EXCEPT ![count'] = events']
    /\ met' = met \ {r}
    /\ UNCHANGED <<groups, runVars, workVars, stale, deaths>>

\* What a batch has made stays when the request dies.
Crash(r) ==
    /\ pc[r] # "idle"
    /\ Event
    /\ Ends(r)
    /\ met' = met \ {r} /\ stale' = stale \ {r}
    /\ undone' = undone \cup local[r].made
    /\ blame' = [s \in ScheduleIds |-> IF s \in local[r].made THEN events' ELSE blame[s]]
    /\ deaths' = IF local[r].made = {} THEN deaths ELSE deaths \cup {events'}
    /\ UNCHANGED <<groups, rowVars, runVars, workVars, wanted, after, unseen>>

-----------------------------------------------------------------------------
BatchStep(r) == ListByUser(r) \/ Create(r) \/ CreateRefused(r) \/ RollBack(r)

Arrives(r) ==
    \/ \E g \in Groups, b \in Batches : createSchedules(r, g, b)
    \/ \E s \in ScheduleIds, f \in Forms : \E c \in Contents(f) : requireSchedule(r, s, f, c)

Next ==
    \/ \E r \in Requests : \/ Arrives(r) \/ BatchStep(r) \/ Update(r) \/ UpdateAnswerLost(r)
                           \/ UpdateRefused(r) \/ CallFails(r) \/ CreateAnswerLost(r) \/ Crash(r)
    \/ \E s \in ScheduleIds : \/ Delete(s) \/ Run(s) \/ Enqueue(s)
                              \/ CreateRun(s) \/ CreateRunRefused(s)
    \/ \E g \in Groups : DeleteGroup(g)
    \/ \E picked \in SUBSET ScheduleIds : ListEnabled(picked)
    \/ \E succeeded \in BOOLEAN : EndRun(succeeded)
    \/ NextDay

Spec == Init /\ [][Next]_vars
=============================================================================
