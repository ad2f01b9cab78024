------------------------- MODULE ScheduleTableProps -------------------------
(***************************************************************************)
(* What the table of schedules must get right.                             *)
(***************************************************************************)
EXTENDS ScheduleTable

Locals == [todo : Seq(Times), made : SUBSET ScheduleIds, id : ScheduleIds \cup {0},
           given : Forms \cup {{}}, copy : Settings]

RowType == /\ groups \subseteq Groups
           /\ count \in 0..MaxSchedules
           /\ group \in [ScheduleIds -> Groups \cup {NoGroup}]
           /\ time \in [ScheduleIds -> Times \cup {NoTime}]
           /\ enabled \in [ScheduleIds -> BOOLEAN]
           /\ ranToday \subseteq ScheduleIds

WorkType == /\ runCount \in 0..MaxRuns
            /\ runOf \in [RunIds -> ScheduleIds \cup {0}]
            /\ pass \subseteq ScheduleIds
            /\ jobs \subseteq ScheduleIds
            /\ run \in {<<0, 0>>} \cup (RunIds \X ScheduleIds)

RequestType == /\ pc \in [Requests -> Control]
               /\ local \in [Requests -> Locals]
               /\ events \in 0..MaxEvents

GhostType == /\ wanted \in [ScheduleIds -> SUBSET Settings]
             /\ after \in [ScheduleIds -> Nat]
             /\ stale \subseteq Requests
             /\ met \subseteq Requests
             /\ unseen \subseteq ScheduleIds /\ undone \subseteq ScheduleIds
             /\ blame \in [ScheduleIds -> 0..MaxEvents] /\ deaths \subseteq 1..MaxEvents

\* Every row refers to a group that exists; tables, requests and work hold values of
\* their types.
TypeOK == /\ RowType /\ WorkType /\ RequestType /\ GhostType
          /\ \A s \in ScheduleIds : Exists(s) => s <= count /\ group[s] \in groups

\* "For this group there is already a schedule at the chosen time" (the answer of the
\* bot): two schedules of a group at one time of day come only from two requests that
\* looked at the same moment, from a change, which does not look, or from two spellings
\* of the time, of which each is taken once.
OneSchedulePerSlot ==
    \A s, u \in ScheduleIds :
        s # u /\ Exists(s) /\ group[s] = group[u] /\ time[s][1] = time[u][1] =>
            {s, u} \cap unseen # {} \/ time[s] # time[u]

\* A row holds the settings of the last change the owner was told of, applied to what it
\* held before, whatever runs, lists and deletes beside it; after a lost answer it may
\* hold either, and after changes that overlapped also what the later one had read.
EditsAreKept ==
    \A s \in ScheduleIds : Exists(s) => Row(s) \in wanted[s]

\* What is left of a batch that did not succeed and is not being undone.
Leftover(s) == /\ s \in undone /\ Exists(s)
               /\ \A r \in Requests : pc[r] = "undo" => s \notin local[r].made

\* A batch of the bot that does not succeed leaves none of its schedules without a fault
\* of its own to blame: a deletion that failed, an insertion whose answer was lost or a
\* request that died; and only a death leaves more than one.
BatchIsWhole ==
    \A s \in ScheduleIds : Leftover(s) =>
        /\ blame[s] # 0
        /\ \A u \in ScheduleIds : Leftover(u) /\ blame[u] = blame[s] => u = s \/ blame[s] \in deaths

\* No run is recorded of a schedule that is gone, also when it went, alone or with its
\* group, between the pass that found it due and the pipeline, or during the pipeline.
RunsHaveSchedules ==
    \A n \in RunIds : runOf[n] # 0 => Exists(runOf[n])

\* A run that is recorded stays recorded until the day ends, though requests write whole
\* rows they read before a pipeline marked its end: no edit makes a schedule due again.
LastRunIsKept ==
    [][NextDay \/ \A s \in ranToday \ ranToday' : ~Exists(s)']_vars

\* Once the owner can only take a schedule for disabled, the scheduler enqueues it at
\* most once more, from the list it had read before, however long it goes on.
OffStops ==
    \A s \in ScheduleIds : after[s] <= 1
=============================================================================
