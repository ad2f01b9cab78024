------------------------- MODULE ScheduleTableProofs -------------------------
(***************************************************************************)
(* Theorems of ScheduleTable, for any number of requests, groups, times,   *)
(* schedules and faults.                                                   *)
(***************************************************************************)
EXTENDS ScheduleTableProps, SequenceTheorems, TLAPS

-----------------------------------------------------------------------------
\* The values requests keep.

LEMMA BatchesAreSequences == ASSUME NEW b \in Batches PROVE b \in Seq(Times) /\ b # << >>
<1>0. Padded \subseteq Times
    BY DEF Times
<1>1. CASE b \in {<<t>> : t \in Times}
    <2> PICK t \in Times : b = <<t>>
        BY <1>1
    <2> QED OBVIOUS
<1>2. CASE b \in Padded \X Padded
    <2> PICK t \in Times, u \in Times : b = <<t, u>>
        BY <1>0, <1>2
    <2> QED OBVIOUS
<1>3. CASE b \in Padded \X Padded \X Padded
    <2> PICK t \in Times, u \in Times, v \in Times : b = <<t, u, v>>
        BY <1>0, <1>3
    <2> QED OBVIOUS
<1> QED BY <1>1, <1>2, <1>3 DEF Batches

\* What is left of a batch with more than one time.
LEMMA RestOfBatch ==
    ASSUME NEW b \in Seq(Times), b # << >>, Len(b) # 1
    PROVE  Tail(b) \in Seq(Times) /\ Tail(b) # << >>
<1> DEFINE n == Len(b)
           m == Len(Tail(b))
<1>1. m = n - 1 /\ n \in Nat /\ Tail(b) \in Seq(Times)
    BY HeadTailProperties
<1>2. ASSUME Tail(b) = << >> PROVE FALSE
    <2>1. m = 0
        BY <1>2, EmptySeq, Zenon
    <2> HIDE DEF n, m
    <2>2. n = 1
        BY <1>1, <2>1
    <2> QED BY <2>2 DEF n
<1> QED BY <1>1, <1>2

LEMMA NoLocalsTyped == NoLocals \in Locals /\ NoSettings \in Settings
BY DEF NoLocals, NoSettings, Locals, Settings

LEMMA GivenTyped == ASSUME NEW old \in Settings, NEW c \in Settings, NEW f
                    PROVE  Given(old, f, c) \in Settings
BY DEF Given, Settings

LEMMA GoesTyped ==
    ASSUME pc \in [Requests -> Control], local \in [Requests -> Locals],
           NEW r \in Requests, NEW l \in Control, NEW x \in Locals, Goes(r, l, x)
    PROVE  /\ pc' \in [Requests -> Control] /\ local' \in [Requests -> Locals]
           /\ pc'[r] = l /\ local'[r] = x
           /\ \A q \in Requests \ {r} : pc'[q] = pc[q] /\ local'[q] = local[q]
BY DEF Goes

-----------------------------------------------------------------------------
\* The types, with what a request holds where it stands.

Ready(r) == /\ pc[r] \in {"list", "insert"} => local[r].todo # << >> /\ local[r].copy.group \in Groups
            /\ pc[r] = "update" => local[r].id \in ScheduleIds

RowsTyped == RowType /\ \A s \in ScheduleIds : Exists(s) => s <= count /\ group[s] \in groups

RequestsTyped == RequestType /\ \A r \in Requests : Ready(r)

LEMMA EndsTyped ==
    ASSUME RequestsTyped, NEW r \in Requests, Ends(r)
    PROVE  /\ pc' \in [Requests -> Control] /\ local' \in [Requests -> Locals]
           /\ pc'[r] = "idle" /\ \A q \in Requests : Ready(q)'
           /\ \A q \in Requests \ {r} : pc'[q] = pc[q] /\ local'[q] = local[q]
<1>1. /\ pc' \in [Requests -> Control] /\ local' \in [Requests -> Locals]
      /\ pc'[r] = "idle" /\ local'[r] = NoLocals
      /\ \A q \in Requests \ {r} : pc'[q] = pc[q] /\ local'[q] = local[q]
    <2>1. "idle" \in Control
        BY DEF Control
    <2> QED BY <2>1, NoLocalsTyped, GoesTyped DEF RequestsTyped, RequestType, Ends
<1>2. ASSUME NEW q \in Requests PROVE Ready(q)'
    <2>1. CASE q = r
        BY <1>1, <2>1 DEF Ready
    <2>2. CASE q # r
        BY <1>1, <2>2 DEF Ready, RequestsTyped
    <2> QED BY <2>1, <2>2
<1> QED BY <1>1, <1>2

\* A request that goes on with its variables.
LEMMA OnTyped ==
    ASSUME RequestsTyped, NEW r \in Requests, NEW l \in Control, NEW x \in Locals, Goes(r, l, x),
           l \in {"list", "insert"} => x.todo # << >> /\ x.copy.group \in Groups,
           l = "update" => x.id \in ScheduleIds
    PROVE  /\ pc' \in [Requests -> Control] /\ local' \in [Requests -> Locals]
           /\ pc'[r] = l /\ local'[r] = x /\ \A q \in Requests : Ready(q)'
           /\ \A q \in Requests \ {r} : pc'[q] = pc[q] /\ local'[q] = local[q]
<1>1. /\ pc' \in [Requests -> Control] /\ local' \in [Requests -> Locals]
      /\ pc'[r] = l /\ local'[r] = x
      /\ \A q \in Requests \ {r} : pc'[q] = pc[q] /\ local'[q] = local[q]
    BY GoesTyped DEF RequestsTyped, RequestType
<1>2. ASSUME NEW q \in Requests PROVE Ready(q)'
    <2>1. CASE q = r
        BY <1>1, <2>1 DEF Ready
    <2>2. CASE q # r
        BY <1>1, <2>2 DEF Ready, RequestsTyped
    <2> QED BY <2>1, <2>2
<1> QED BY <1>1, <1>2

LEMMA FailingTyped ==
    ASSUME RequestsTyped, GhostType, NEW r \in Requests,
           NEW unknown \in SUBSET ScheduleIds, Failing(r, unknown)
    PROVE  /\ pc' \in [Requests -> Control] /\ local' \in [Requests -> Locals]
           /\ \A q \in Requests : Ready(q)'
           /\ pc'[r] \in {"idle", "undo"}
           /\ pc'[r] = "idle" => local[r].made = {}
           /\ pc'[r] = "undo" => local'[r] = local[r]
           /\ \A q \in Requests \ {r} : pc'[q] = pc[q] /\ local'[q] = local[q]
           /\ undone' = undone \cup local[r].made \cup unknown /\ undone' \subseteq ScheduleIds
<1>1. local[r] \in Locals /\ "undo" \in Control
    BY DEF RequestsTyped, RequestType, Control
<1>2. undone' = undone \cup local[r].made \cup unknown /\ undone' \subseteq ScheduleIds
    BY <1>1 DEF Failing, GhostType, Locals
<1>3. CASE local[r].made = {}
    <2>1. Ends(r)
        BY <1>3 DEF Failing
    <2> QED BY <2>1, EndsTyped, <1>2, <1>3
<1>4. CASE local[r].made # {}
    <2>1. Goes(r, "undo", local[r])
        BY <1>4 DEF Failing
    <2> QED BY <2>1, <1>1, <1>2, OnTyped
<1> QED BY <1>3, <1>4

LEMMA DeleteRowsTyped ==
    ASSUME RowsTyped, WorkType, GhostType, groups' \subseteq Groups, NEW gone, DeleteRows(gone)
    PROVE  /\ RowType'
           /\ \A s \in ScheduleIds : /\ Exists(s)' <=> Exists(s) /\ s \notin gone
                                     /\ s \notin gone => Row(s)' = Row(s) /\ wanted'[s] = wanted[s]
           /\ \A s \in ScheduleIds : Exists(s)' => group'[s] = group[s] /\ time'[s] = time[s] /\ s <= count'
           /\ runCount' \in 0..MaxRuns /\ runOf' \in [RunIds -> ScheduleIds \cup {0}]
           /\ wanted' \in [ScheduleIds -> SUBSET Settings] /\ after' \in [ScheduleIds -> Nat]
           /\ blame' \in [ScheduleIds -> 0..MaxEvents]
           /\ unseen' \subseteq ScheduleIds /\ undone' \subseteq ScheduleIds
           /\ stale' = stale /\ deaths' = deaths
<1>1. RowType'
    <2>1. group' \in [ScheduleIds -> Groups \cup {NoGroup}] /\ time' \in [ScheduleIds -> Times \cup {NoTime}]
        BY DEF DeleteRows, RowsTyped, RowType
    <2>2. enabled' \in [ScheduleIds -> BOOLEAN]
        BY Zenon DEF DeleteRows
    <2>3. ranToday \subseteq ScheduleIds /\ count \in 0..MaxSchedules
        BY DEF RowsTyped, RowType
    <2>4. count' = count /\ ranToday' \subseteq ScheduleIds
        BY <2>3 DEF DeleteRows
    <2> QED BY <2>1, <2>2, <2>3, <2>4 DEF RowType
<1>2. ASSUME NEW s \in ScheduleIds
      PROVE  /\ Exists(s)' <=> Exists(s) /\ s \notin gone
             /\ s \notin gone => group'[s] = group[s] /\ time'[s] = time[s] /\ wanted'[s] = wanted[s]
    BY DEF DeleteRows, Exists
<1>3. ASSUME NEW s \in ScheduleIds, s \notin gone PROVE enabled'[s] = enabled[s]
    <2>1. enabled'[s] = (s \notin gone /\ enabled[s])
        BY Zenon DEF DeleteRows
    <2>2. enabled[s] \in BOOLEAN
        BY DEF RowsTyped, RowType
    <2> QED BY <2>1, <2>2, <1>3
<1>4. ASSUME NEW s \in ScheduleIds, Exists(s)' PROVE s <= count'
    BY <1>2, <1>4 DEF DeleteRows, RowsTyped
<1>5. /\ runCount' \in 0..MaxRuns /\ runOf' \in [RunIds -> ScheduleIds \cup {0}]
      /\ unseen' \subseteq ScheduleIds /\ undone' \subseteq ScheduleIds
      /\ stale' = stale /\ deaths' = deaths
    BY DEF DeleteRows, WorkType, GhostType
<1>6. wanted' \in [ScheduleIds -> SUBSET Settings] /\ after' \in [ScheduleIds -> Nat]
    BY DEF DeleteRows, GhostType
<1>7. blame' \in [ScheduleIds -> 0..MaxEvents]
    BY ScheduleTableAssumption DEF DeleteRows, GhostType
<1> QED BY <1>1, <1>2, <1>3, <1>4, <1>5, <1>6, <1>7 DEF Row

LEMMA InsertTyped ==
    ASSUME RowsTyped, NEW g \in Groups, g \in groups, NEW t \in Times, Insert(g, t),
    UNCHANGED groups
    PROVE  /\ RowsTyped' /\ count' = count + 1 /\ count' \in ScheduleIds /\ ~Exists(count')
           /\ group'[count'] = g /\ time'[count'] = t /\ enabled'[count']
           /\ \A s \in ScheduleIds \ {count'} : group'[s] = group[s] /\ time'[s] = time[s] /\ Row(s)' = Row(s)
<1>1. count' = count + 1 /\ count' \in ScheduleIds
    BY ScheduleTableAssumption DEF Insert, RowsTyped, RowType, ScheduleIds
<1>2. /\ group' = [group EXCEPT ![count'] = g] /\ time' = [time EXCEPT ![count'] = t]
      /\ enabled' = [enabled EXCEPT ![count'] = TRUE] /\ ranToday' = ranToday
    BY DEF Insert
<1>3. RowType'
    BY <1>1, <1>2 DEF RowsTyped, RowType, ScheduleIds
<1>4. /\ group'[count'] = g /\ time'[count'] = t /\ enabled'[count']
      /\ \A s \in ScheduleIds \ {count'} : group'[s] = group[s] /\ time'[s] = time[s] /\ enabled'[s] = enabled[s]
    BY <1>1, <1>2 DEF RowsTyped, RowType
<1>5. ~Exists(count')
    BY <1>1 DEF RowsTyped, RowType, ScheduleIds
<1>6. ASSUME NEW s \in ScheduleIds, Exists(s)' PROVE s <= count' /\ group'[s] \in groups'
    <2>1. CASE s = count'
        BY <1>1, <1>4, <2>1 DEF ScheduleIds
    <2>2. CASE s # count'
        <3>1. Exists(s) /\ group'[s] = group[s]
            BY <1>4, <1>6, <2>2 DEF Exists
        <3> QED BY <1>1, <3>1 DEF RowsTyped, RowType, ScheduleIds
    <2> QED BY <2>1, <2>2
<1> QED BY <1>1, <1>3, <1>4, <1>5, <1>6 DEF RowsTyped, Row

Typed == RowsTyped /\ WorkType /\ RequestsTyped /\ GhostType

LEMMA InitTyped == Init => Typed
<1> SUFFICES ASSUME Init PROVE Typed
    OBVIOUS
<1>1. RowsTyped /\ WorkType
    BY ScheduleTableAssumption DEF Init, RowsTyped, RowType, WorkType, Exists, ScheduleIds, RunIds
<1>2. RequestsTyped
    BY NoLocalsTyped, ScheduleTableAssumption DEF Init, RequestsTyped, RequestType, Ready, Control
<1>3. GhostType
    BY ScheduleTableAssumption DEF Init, GhostType
<1> QED BY <1>1, <1>2, <1>3 DEF Typed

\* Parts that a step leaves alone.
LEMMA SameRows == RowsTyped /\ UNCHANGED <<groups, rowVars>> => RowsTyped'
BY DEF RowsTyped, RowType, rowVars, Exists

LEMMA SameWork == WorkType /\ UNCHANGED <<runVars, workVars>> => WorkType'
BY DEF WorkType, runVars, workVars

LEMMA SameRequests == RequestsTyped /\ UNCHANGED <<pc, local, events>> => RequestsTyped'
BY DEF RequestsTyped, RequestType, Ready

LEMMA SameGhosts == GhostType /\ UNCHANGED <<editVars, batchVars>> => GhostType'
BY DEF GhostType, editVars, batchVars

LEMMA TellsTyped ==
    ASSUME GhostType, NEW s \in ScheduleIds, NEW W \in SUBSET Settings, Tells(s, W)
    PROVE  wanted' \in [ScheduleIds -> SUBSET Settings] /\ after' \in [ScheduleIds -> Nat]
BY DEF GhostType, Tells

LEMMA EventTyped ==
    RequestsTyped /\ Event => events' \in 0..MaxEvents /\ events' \in 1..MaxEvents /\ events' = events + 1
BY ScheduleTableAssumption DEF RequestsTyped, RequestType, Event

\* The steps of the batches keep the types.
LEMMA BatchesTyped ==
    ASSUME Typed, NEW r \in Requests, BatchStep(r) \/ CallFails(r) \/ CreateAnswerLost(r)
    PROVE  Typed'
<1> USE DEF Typed, rowVars, runVars, workVars, editVars, batchVars
<1>0. local[r] \in Locals /\ Ready(r) /\ events \in 0..MaxEvents
    BY DEF RequestsTyped, RequestType
<1>1. CASE ListByUser(r)
    <2>1. RowsTyped' /\ WorkType'
        BY <1>1, SameRows, SameWork DEF ListByUser
    <2>2. CASE Failing(r, {}) /\ met' = met
        BY <1>1, <2>1, <2>2, FailingTyped DEF ListByUser, RequestsTyped, RequestType, GhostType
    <2>3. CASE Goes(r, "insert", local[r]) /\ undone' = undone
        <3>1. "insert" \in Control /\ local[r].todo # << >> /\ local[r].copy.group \in Groups
            BY <1>0, <1>1 DEF Control, Ready, ListByUser
        <3>2. RequestsTyped'
            BY <1>0, <1>1, <2>3, <3>1, OnTyped DEF ListByUser, RequestsTyped, RequestType
        <3>3. met' \subseteq Requests
            BY <1>1, <2>3 DEF ListByUser, GhostType, Inserting
        <3> QED BY <1>1, <2>1, <2>3, <3>2, <3>3 DEF ListByUser, GhostType
    <2> QED BY <1>1, <2>2, <2>3 DEF ListByUser
<1>2. ASSUME NEW l \in {"list", "insert"}, pc[r] = l
      PROVE  local[r].copy.group \in Groups /\ Head(local[r].todo) \in Times
    BY <1>0, <1>2, HeadTailProperties DEF Ready, Locals
<1>3. CASE Create(r)
    <2> DEFINE x == local[r]
               s == count + 1
               y == [x EXCEPT !.todo = Tail(x.todo), !.made = @ \cup {s}]
               g == x.copy.group
               t == Head(x.todo)
    <2>1. Insert(g, t) /\ g \in groups /\ UNCHANGED groups /\ g \in Groups /\ t \in Times
        BY <1>2, <1>3 DEF Create
    <2>2. RowsTyped' /\ s \in ScheduleIds
        BY <2>1, InsertTyped
    <2>3. WorkType'
        BY <1>3, SameWork DEF Create
    <2>4. Made(g, t) \in Settings
        BY <2>1 DEF Made, Settings
    <2>5. GhostType'
        BY <1>3, <2>2, <2>4, TellsTyped DEF Create, GhostType
    <2>6. CASE Ends(r)
        BY <1>3, <2>2, <2>3, <2>5, <2>6, EndsTyped DEF Create, RequestsTyped, RequestType
    <2>7. CASE Len(x.todo) # 1 /\ Goes(r, "list", y)
        <3>1. Tail(x.todo) \in Seq(Times) /\ Tail(x.todo) # << >>
            BY <1>0, <1>3, <2>7, RestOfBatch DEF Create, Ready, Locals
        <3>2. y \in Locals /\ y.todo # << >> /\ y.copy.group \in Groups /\ "list" \in Control
            BY <1>0, <2>1, <2>2, <3>1 DEF Locals, Control
        <3> QED BY <1>3, <2>2, <2>3, <2>5, <2>7, <3>2, OnTyped DEF Create, RequestsTyped,
                                                                   RequestType
    <2> QED BY <1>3, <2>6, <2>7 DEF Create
<1>4. CASE CreateRefused(r)
    <2>1. RowsTyped' /\ WorkType'
        BY <1>4, SameRows, SameWork DEF CreateRefused
    <2> QED BY <1>4, <2>1, FailingTyped DEF CreateRefused, RequestsTyped, RequestType, GhostType
<1>5. CASE RollBack(r)
    <2> DEFINE x == local[r]
               s == CHOOSE z \in x.made : \A y \in x.made : z <= y
               y == [x EXCEPT !.made = @ \ {s}]
    <2>1. y \in Locals /\ "undo" \in Control
        BY <1>0 DEF Locals, Control
    <2>2. /\ pc' \in [Requests -> Control] /\ local' \in [Requests -> Locals]
          /\ \A q \in Requests : Ready(q)'
        BY <1>5, <2>1, EndsTyped, OnTyped DEF RollBack
    <2>3. CASE DeleteRows({s}) /\ UNCHANGED events
        <3>1. RowsTyped'
            BY <1>5, <2>3, DeleteRowsTyped DEF RollBack, RowsTyped, RowType
        <3>2. WorkType'
            BY <1>5, <2>3, DeleteRowsTyped DEF RollBack, WorkType, RowsTyped, RowType
        <3>3. GhostType'
            BY <1>5, <2>3, DeleteRowsTyped DEF RollBack, GhostType, RowsTyped, RowType
        <3> QED BY <2>2, <2>3, <3>1, <3>2, <3>3 DEF RequestsTyped, RequestType
    <2>4. CASE Event /\ Leave(s) /\ UNCHANGED <<rowVars, runVars, editVars, unseen, deaths>>
        <3>1. RowsTyped' /\ WorkType'
            BY <1>5, <2>4, SameRows, SameWork DEF RollBack
        <3>2. GhostType'
            BY <1>5, <2>4, EventTyped DEF RollBack, GhostType, Leave
        <3> QED BY <2>2, <2>4, <3>1, <3>2, EventTyped DEF RequestsTyped, RequestType
    <2> QED BY <1>5, <2>3, <2>4 DEF RollBack
<1>6. CASE CallFails(r)
    <2>1. RowsTyped' /\ WorkType'
        BY <1>6, SameRows, SameWork DEF CallFails
    <2> QED BY <1>6, <2>1, FailingTyped, EventTyped DEF CallFails, RequestsTyped, RequestType,
                                                        GhostType
<1>7. CASE CreateAnswerLost(r)
    <2> DEFINE g == local[r].copy.group
               t == Head(local[r].todo)
    <2>1. Insert(g, t) /\ g \in groups /\ UNCHANGED groups /\ g \in Groups /\ t \in Times
        BY <1>2, <1>7 DEF CreateAnswerLost
    <2>2. RowsTyped' /\ count' \in ScheduleIds
        BY <2>1, InsertTyped
    <2>3. WorkType'
        BY <1>7, SameWork DEF CreateAnswerLost
    <2>4. Made(g, t) \in Settings
        BY <2>1 DEF Made, Settings
    <2>5. Failing(r, {count'}) /\ {count'} \subseteq ScheduleIds
        BY <1>7, <2>2 DEF CreateAnswerLost
    <2>6. GhostType'
        BY <1>7, <2>2, <2>4, <2>5, FailingTyped, TellsTyped, EventTyped DEF CreateAnswerLost,
                                                                            GhostType
    <2> QED BY <1>7, <2>2, <2>3, <2>5, <2>6, FailingTyped, EventTyped
            DEF CreateAnswerLost, RequestsTyped, RequestType
<1> QED BY <1>1, <1>3, <1>4, <1>5, <1>6, <1>7 DEF BatchStep

\* So do changes, deletions and crashes.
LEMMA EditsTyped ==
    ASSUME Typed, NEW r \in Requests,
           Arrives(r) \/ Update(r) \/ UpdateAnswerLost(r) \/ UpdateRefused(r) \/ Crash(r)
    PROVE  Typed'
<1> USE DEF Typed, rowVars, runVars, workVars, editVars, batchVars
<1>0. local[r] \in Locals /\ Ready(r) /\ events \in 0..MaxEvents
    BY DEF RequestsTyped, RequestType
<1>1. ASSUME NEW g \in Groups, NEW b \in Batches, createSchedules(r, g, b) PROVE Typed'
    <2> DEFINE x == [NoLocals EXCEPT !.todo = b, !.copy = [NoSettings EXCEPT !.group = g]]
    <2>1. RowsTyped' /\ WorkType' /\ GhostType'
        BY <1>1, SameRows, SameWork, SameGhosts DEF createSchedules
    <2>2. x \in Locals /\ x.todo # << >> /\ x.copy.group \in Groups /\ "list" \in Control
        BY BatchesAreSequences, NoLocalsTyped DEF Locals, NoLocals, Settings, NoSettings, Control
    <2> QED BY <1>0, <1>1, <2>1, <2>2, OnTyped DEF createSchedules, RequestsTyped, RequestType
<1>2. ASSUME NEW s \in ScheduleIds, NEW f \in Forms, NEW c \in Contents(f),
             requireSchedule(r, s, f, c)
      PROVE  Typed'
    <2> DEFINE x == [NoLocals EXCEPT !.id = s, !.given = f, !.copy = Given(Row(s), f, c)]
    <2>1. RowsTyped' /\ WorkType'
        BY <1>2, SameRows, SameWork DEF requireSchedule
    <2>2. Row(s) \in Settings /\ c \in Settings
        BY DEF Row, Contents, Settings, RowsTyped, RowType
    <2>3. x \in Locals /\ x.id \in ScheduleIds /\ "update" \in Control
        BY <2>2, GivenTyped, NoLocalsTyped DEF Locals, NoLocals, Control
    <2>4. RequestsTyped'
        BY <1>2, <2>3, OnTyped, EventTyped DEF requireSchedule, RequestsTyped, RequestType
    <2>5. GhostType'
        BY <1>2 DEF requireSchedule, GhostType
    <2> QED BY <2>1, <2>4, <2>5
<1>3. CASE Rewrite(r) /\ \E W \in SUBSET Settings : Tells(local[r].id, W) /\ (Event \/ UNCHANGED events)
    <2> DEFINE x == local[r]
               s == x.id
    <2>1. s \in ScheduleIds /\ x.copy \in Settings /\ x.copy.group \in groups /\ Exists(s) /\ Store(s, x.copy)
        BY <1>0, <1>3 DEF Rewrite, Ready, Locals
    <2>2. RowType'
        BY <1>3, <2>1 DEF Rewrite, Store, RowsTyped, RowType, Settings
    <2>3. ASSUME NEW u \in ScheduleIds, Exists(u)' PROVE u <= count' /\ group'[u] \in groups'
        BY <1>3, <2>1, <2>3 DEF Rewrite, Store, RowsTyped, RowType, Exists
    <2>4. WorkType'
        BY <1>3, SameWork DEF Rewrite
    <2>5. GhostType'
        BY <1>3, <2>1, TellsTyped DEF Rewrite, GhostType, Changing
    <2> QED BY <1>0, <1>3, <2>2, <2>3, <2>4, <2>5, EndsTyped, EventTyped
            DEF Rewrite, RowsTyped, RequestsTyped, RequestType
<1>6. ASSUME Rewrite(r) PROVE wanted[local[r].id] \in SUBSET Settings /\ Expected(r) \in SUBSET Settings
    <2>1. /\ local[r].id \in ScheduleIds /\ local[r].copy \in Settings
          /\ wanted[local[r].id] \in SUBSET Settings
        BY <1>0, <1>6 DEF Rewrite, Ready, Locals, GhostType
    <2>2. \A w \in wanted[local[r].id] : Given(w, local[r].given, local[r].copy) \in Settings
        BY <2>1, GivenTyped
    <2> QED BY <2>1, <2>2 DEF Expected
<1>7. CASE Update(r) \/ UpdateAnswerLost(r)
    <2>1. Rewrite(r)
        BY <1>7 DEF Update, UpdateAnswerLost
    <2> DEFINE W == IF Update(r) THEN Expected(r) ELSE wanted[local[r].id] \cup Expected(r)
    <2>2. W \in SUBSET Settings
        BY <1>6, <2>1
    <2>3. Tells(local[r].id, W) /\ (Event \/ UNCHANGED events)
        BY <1>7 DEF Update, UpdateAnswerLost
    <2> QED BY <1>3, <2>1, <2>2, <2>3
<1>4. CASE UpdateRefused(r)
    <2>1. RowsTyped' /\ WorkType'
        BY <1>4, SameRows, SameWork DEF UpdateRefused
    <2>2. GhostType'
        BY <1>4 DEF UpdateRefused, GhostType
    <2> QED BY <1>0, <1>4, <2>1, <2>2, EndsTyped DEF UpdateRefused, RequestsTyped, RequestType
<1>5. CASE Crash(r)
    <2>1. RowsTyped' /\ WorkType'
        BY <1>5, SameRows, SameWork DEF Crash
    <2>2. events' \in 1..MaxEvents /\ local[r].made \subseteq ScheduleIds
        BY <1>0, <1>5, EventTyped DEF Crash, Locals
    <2>3. blame' \in [ScheduleIds -> 0..MaxEvents]
        BY <1>5, <2>2 DEF Crash, GhostType
    <2>4. GhostType'
        BY <1>5, <2>2, <2>3 DEF Crash, GhostType
    <2> QED BY <1>5, <2>1, <2>4, EndsTyped, EventTyped DEF Crash, RequestsTyped, RequestType
<1> QED BY <1>1, <1>2, <1>4, <1>5, <1>7 DEF Arrives

\* So do deletions, the scheduler, the worker and the clock.
LEMMA WorkTyped ==
    ASSUME Typed,
           \/ \E s \in ScheduleIds : \/ Delete(s) \/ Run(s) \/ Enqueue(s)
                                     \/ CreateRun(s) \/ CreateRunRefused(s)
           \/ \E g \in Groups : DeleteGroup(g)
           \/ \E picked \in SUBSET ScheduleIds : ListEnabled(picked)
           \/ \E succeeded \in BOOLEAN : EndRun(succeeded)
           \/ NextDay
    PROVE  Typed'
<1> USE DEF Typed, rowVars, runVars, workVars, editVars, batchVars
<1>1. ASSUME NEW gone, DeleteRows(gone), groups' \subseteq groups, Event, UNCHANGED <<workVars,
pc, local, met>>,
             \A s \in ScheduleIds \ gone : Exists(s) => group[s] \in groups'
      PROVE  Typed'
    <2>1. groups' \subseteq Groups
        BY <1>1 DEF RowsTyped, RowType
    <2>2. RowsTyped'
        BY <1>1, <2>1, DeleteRowsTyped DEF RowsTyped
    <2>3. WorkType'
        BY <1>1, <2>1, DeleteRowsTyped DEF WorkType
    <2>4. GhostType'
        BY <1>1, <2>1, DeleteRowsTyped DEF GhostType
    <2>5. RequestsTyped'
        BY <1>1, EventTyped DEF RequestsTyped, RequestType, Ready
    <2> QED BY <2>2, <2>3, <2>4, <2>5
<1>2. ASSUME NEW s \in ScheduleIds, Delete(s) PROVE Typed'
    BY <1>1, <1>2 DEF Delete, RowsTyped
<1>3. ASSUME NEW g \in Groups, DeleteGroup(g) PROVE Typed'
    <2> DEFINE gone == {s \in ScheduleIds : group[s] = g}
    <2>1. \A s \in ScheduleIds \ gone : Exists(s) => group[s] \in groups'
        BY <1>3 DEF DeleteGroup, RowsTyped
    <2> QED BY <1>1, <1>3, <2>1 DEF DeleteGroup
<1>4. ASSUME NEW s \in ScheduleIds, Run(s) \/ Enqueue(s) \/ CreateRun(s) \/ CreateRunRefused(s) PROVE Typed'
    <2>1. RowsTyped' /\ RequestsTyped'
        BY <1>4, SameRows, SameRequests DEF Run, Enqueue, CreateRun, Collect, CreateRunRefused
    <2>2. GhostType'
        <3>1. CASE Enqueue(s)
            BY <3>1 DEF Enqueue, GhostType
        <3>2. CASE Run(s) \/ CreateRun(s) \/ CreateRunRefused(s)
            BY <3>2, SameGhosts DEF Run, CreateRun, Collect, CreateRunRefused
        <3> QED BY <1>4, <3>1, <3>2
    <2>3. CASE CreateRun(s)
        <3>1. runCount' \in RunIds /\ runCount' \in 0..MaxRuns
            BY <2>3, ScheduleTableAssumption DEF CreateRun, Collect, WorkType, RunIds
        <3> QED BY <2>1, <2>2, <2>3, <3>1 DEF CreateRun, Collect, WorkType
    <2>4. CASE Run(s) \/ Enqueue(s) \/ CreateRunRefused(s)
        <3>1. WorkType'
            BY <2>4 DEF Run, Enqueue, CreateRunRefused, WorkType
        <3> QED BY <2>1, <2>2, <3>1
    <2> QED BY <1>4, <2>3, <2>4
<1>5. ASSUME NEW picked \in SUBSET ScheduleIds, ListEnabled(picked) PROVE Typed'
    <2>1. WorkType'
        BY <1>5 DEF ListEnabled, WorkType
    <2> QED BY <1>5, <2>1, SameRows, SameRequests, SameGhosts DEF ListEnabled
<1>6. ASSUME NEW succeeded \in BOOLEAN, EndRun(succeeded) PROVE Typed'
    <2>1. ranToday' \subseteq ScheduleIds
        <3>1. CASE succeeded /\ Exists(run[2])
            <4>1. run[2] \in ScheduleIds
                BY <1>6 DEF EndRun, WorkType
            <4>2. ranToday' = ranToday \cup {run[2]}
                BY <1>6, <3>1 DEF EndRun
            <4> QED BY <4>1, <4>2 DEF RowsTyped, RowType
        <3>2. CASE ~(succeeded /\ Exists(run[2]))
            BY <1>6, <3>2 DEF EndRun, RowsTyped, RowType
        <3> QED BY <3>1, <3>2
    <2>2. RowsTyped'
        BY <1>6, <2>1 DEF EndRun, RowsTyped, RowType, Exists
    <2>3. WorkType'
        BY <1>6 DEF EndRun, WorkType
    <2> QED BY <1>6, <2>2, <2>3, SameRequests, SameGhosts DEF EndRun
<1>7. CASE NextDay
    <2>1. RowsTyped'
        BY <1>7 DEF NextDay, RowsTyped, RowType, Exists
    <2> QED BY <1>7, <2>1, SameWork, SameRequests, SameGhosts DEF NextDay
<1> QED BY <1>2, <1>3, <1>4, <1>5, <1>6, <1>7

LEMMA NextTyped == Typed /\ [Next]_vars => Typed'
<1> SUFFICES ASSUME Typed, [Next]_vars PROVE Typed'
    OBVIOUS
<1>1. CASE Next
    BY <1>1, BatchesTyped, EditsTyped, WorkTyped DEF Next
<1>2. CASE UNCHANGED vars
    <2>1. UNCHANGED <<groups, rowVars, runVars, workVars, pc, local, events, editVars, batchVars>>
        BY <1>2 DEF vars
    <2> QED BY <2>1, SameRows, SameWork, SameRequests, SameGhosts DEF Typed
<1> QED BY <1>1, <1>2

\* Tables, requests and work hold values of their types, every schedule has its group,
\* and a request holds what its next statement needs.
THEOREM TypeCorrect == Spec => []TypeOK
<1>1. Spec => []Typed
    BY InitTyped, NextTyped, PTL DEF Spec
<1>2. Typed => TypeOK
    BY DEF Typed, TypeOK, RowsTyped, RequestsTyped
<1> QED BY <1>1, <1>2, PTL

-----------------------------------------------------------------------------
\* Runs and their times.

\* What a step may do to the tables of schedules and runs.
Leaves  == UNCHANGED <<groups, rowVars, runVars>>
Deletes == \E gone : DeleteRows(gone)
Inserts == /\ \E g \in Groups, t \in Times : g \in groups /\ Insert(g, t)
           /\ UNCHANGED <<groups, runVars>>
Stores  == /\ \E s \in ScheduleIds, c \in Settings : Exists(s) /\ c.group \in groups /\ Store(s, c)
           /\ UNCHANGED <<groups, runVars>>
Records == \E s \in ScheduleIds : CreateRun(s)
EndsRun   == \E succeeded \in BOOLEAN : EndRun(succeeded)

LEMMA StepKinds ==
    ASSUME Typed, [Next]_vars
    PROVE  Leaves \/ Deletes \/ Inserts \/ Stores \/ Records \/ EndsRun \/ NextDay
<1> USE DEF Typed
<1>1. CASE UNCHANGED vars
    BY <1>1 DEF vars, Leaves
<1>2. ASSUME NEW r \in Requests,
             Arrives(r) \/ BatchStep(r) \/ Update(r) \/ UpdateAnswerLost(r) \/ UpdateRefused(r)
                 \/ CallFails(r) \/ CreateAnswerLost(r) \/ Crash(r)
      PROVE  Leaves \/ Deletes \/ Inserts \/ Stores
    <2>0. local[r] \in Locals /\ Ready(r) /\ groups \subseteq Groups
        BY DEF RequestsTyped, RequestType, RowsTyped, RowType
    <2>1. CASE Arrives(r)
        BY <2>1 DEF Arrives, createSchedules, requireSchedule, Leaves
    <2>2. CASE ListByUser(r) \/ CreateRefused(r) \/ UpdateRefused(r) \/ CallFails(r) \/ Crash(r)
        BY <2>2 DEF ListByUser, CreateRefused, UpdateRefused, CallFails, Crash, Leaves
    <2>3. CASE Create(r) \/ CreateAnswerLost(r)
        <3> DEFINE g == local[r].copy.group
                   t == Head(local[r].todo)
        <3>1. pc[r] = "insert" /\ g \in groups /\ Insert(g, t) /\ UNCHANGED <<groups, runVars>>
            BY <2>3 DEF Create, CreateAnswerLost
        <3>2. t \in Times
            BY <2>0, <3>1, HeadTailProperties DEF Ready, Locals
        <3> QED BY <2>0, <3>1, <3>2 DEF Inserts
    <2>4. CASE RollBack(r)
        BY <2>4 DEF RollBack, Leaves, Deletes
    <2>5. CASE Update(r) \/ UpdateAnswerLost(r)
        <3>1. Rewrite(r)
            BY <2>5 DEF Update, UpdateAnswerLost
        <3>2. local[r].id \in ScheduleIds /\ local[r].copy \in Settings
            BY <2>0, <3>1 DEF Rewrite, Ready, Locals
        <3> QED BY <3>1, <3>2 DEF Rewrite, Stores
    <2> QED BY <1>2, <2>1, <2>2, <2>3, <2>4, <2>5 DEF BatchStep
<1>3. ASSUME NEW s \in ScheduleIds,
             Delete(s) \/ Run(s) \/ Enqueue(s) \/ CreateRun(s) \/ CreateRunRefused(s)
      PROVE  Leaves \/ Deletes \/ Records
    BY <1>3 DEF Delete, Run, Enqueue, CreateRunRefused, Leaves, Deletes, Records
<1>4. ASSUME NEW g \in Groups, DeleteGroup(g) PROVE Deletes
    BY <1>4 DEF DeleteGroup, Deletes
<1>5. ASSUME NEW picked, ListEnabled(picked) PROVE Leaves
    BY <1>5 DEF ListEnabled, Leaves
<1> QED BY <1>1, <1>2, <1>3, <1>4, <1>5 DEF Next, EndsRun

\* A schedule goes only by a deletion.
LEMMA RowsStay ==
    ASSUME Typed, [Next]_vars, ~Deletes, NEW s \in ScheduleIds, Exists(s)
    PROVE  Exists(s)'
<1> USE DEF Typed
<1>1. CASE Leaves \/ Records \/ EndsRun \/ NextDay
    BY <1>1 DEF Leaves, Records, CreateRun, Collect, EndsRun, EndRun, NextDay, rowVars, Exists
<1>2. CASE Inserts
    <2> PICK g \in Groups, t \in Times : g \in groups /\ Insert(g, t)
        BY <1>2 DEF Inserts
    <2>1. group' = [group EXCEPT ![count'] = g] /\ g # NoGroup /\ group \in [ScheduleIds -> Groups \cup {NoGroup}]
        BY ScheduleTableAssumption DEF Insert, RowsTyped, RowType
    <2> QED BY <2>1 DEF Exists
<1>3. CASE Stores
    <2> PICK u \in ScheduleIds, c \in Settings : Exists(u) /\ c.group \in groups /\ Store(u, c)
        BY <1>3 DEF Stores
    <2>1. /\ group' = [group EXCEPT ![u] = c.group] /\ c.group # NoGroup
          /\ group \in [ScheduleIds -> Groups \cup {NoGroup}]
        BY ScheduleTableAssumption DEF Store, RowsTyped, RowType
    <2> QED BY <2>1 DEF Exists
<1> QED BY <1>1, <1>2, <1>3, StepKinds

\* No run is recorded of a schedule that is gone: ON DELETE CASCADE takes the runs of a
\* schedule with it, and the foreign key refuses a run of a schedule that went before
\* (migrations/005, RunSchedule).
THEOREM RunsHaveTheirSchedules == Spec => []RunsHaveSchedules
<1>1. Init => RunsHaveSchedules
    BY DEF Init, RunsHaveSchedules
<1>2. Typed /\ RunsHaveSchedules /\ [Next]_vars => RunsHaveSchedules'
    <2> SUFFICES ASSUME Typed, RunsHaveSchedules, [Next]_vars, NEW n \in RunIds, runOf'[n] # 0
                 PROVE  group'[runOf'[n]] # NoGroup
        BY DEF RunsHaveSchedules, Exists
    <2>0. runOf \in [RunIds -> ScheduleIds \cup {0}]
        BY DEF Typed, WorkType
    <2>1. CASE Deletes
        <3> PICK gone : DeleteRows(gone)
            BY <2>1 DEF Deletes
        <3>1. runOf'[n] = runOf[n] /\ runOf[n] \in ScheduleIds \ gone /\ Exists(runOf[n])
            BY <2>0 DEF DeleteRows, RunsHaveSchedules
        <3> QED BY <3>1 DEF DeleteRows, Exists
    <2>5. ASSUME ~Deletes, NEW s \in ScheduleIds, Exists(s) PROVE group'[s] # NoGroup
        BY <2>5, RowsStay DEF Exists
    <2>2. CASE ~Deletes /\ runOf'[n] = runOf[n]
        BY <2>0, <2>2, <2>5 DEF RunsHaveSchedules
    <2>3. CASE ~Deletes /\ Records
        <3> PICK s \in ScheduleIds : CreateRun(s)
            BY <2>3 DEF Records
        <3>1. Exists(s) /\ (runOf'[n] = runOf[n] \/ runOf'[n] = s)
            BY <2>0 DEF CreateRun, Collect
        <3> QED BY <2>0, <2>2, <2>3, <2>5, <3>1
    <2>4. CASE Leaves \/ Inserts \/ Stores \/ EndsRun \/ NextDay
        <3>1. runOf' = runOf
            BY <2>4 DEF Leaves, Inserts, Stores, EndsRun, EndRun, NextDay, runVars
        <3> QED BY <2>1, <2>2, <3>1
    <2> QED BY <2>1, <2>3, <2>4, StepKinds
<1>3. Spec => []Typed
    BY InitTyped, NextTyped, PTL DEF Spec
<1> QED BY <1>1, <1>2, <1>3, PTL DEF Spec

\* The time of the last run survives every change of a schedule, though requests write
\* back rows they read before it was written: no statement but MarkScheduleRun writes the
\* column, and only the end of the day or a deletion takes it away.
THEOREM LastRunStays == Spec => LastRunIsKept
<1>1. Typed /\ [Next]_vars => [NextDay \/ \A s \in ranToday \ ranToday' : ~Exists(s)']_vars
    <2> SUFFICES ASSUME Typed, [Next]_vars, ~NextDay, NEW s \in ranToday \ ranToday'
                 PROVE  ~Exists(s)'
        OBVIOUS
    <2>0. ranToday \subseteq ScheduleIds
        BY DEF Typed, RowsTyped, RowType
    <2>1. CASE Deletes
        BY <2>0, <2>1 DEF Deletes, DeleteRows, Exists
    <2>2. CASE Leaves \/ Inserts \/ Stores \/ Records
        BY <2>2 DEF Leaves, Inserts, Insert, Stores, Store, Records, CreateRun, Collect, rowVars
    <2>3. CASE EndsRun
        BY <2>3 DEF EndsRun, EndRun
    <2> QED BY <2>1, <2>2, <2>3, StepKinds
<1>2. Spec => []Typed
    BY InitTyped, NextTyped, PTL DEF Spec
<1> QED BY <1>1, <1>2, PTL DEF Spec, LastRunIsKept

-----------------------------------------------------------------------------
\* Changes.  The copy a request changes agrees with the row in what it does not change, or
\* the request is among the stale ones.

CopyHolds(r) ==
    pc[r] = "update" /\ r \notin stale /\ Exists(local[r].id) =>
        Given(Row(local[r].id), local[r].given, local[r].copy) = local[r].copy

\* Requests change schedules that have their number.
IdKnown(r) == pc[r] = "update" => local[r].id <= count

\* A schedule that was enqueued since it is off stays off, and no list holds it.
Silent(s) == /\ after[s] <= 1
             /\ after[s] # 0 => Off(s) /\ s \notin pass

EditsInv == /\ EditsAreKept
            /\ \A r \in Requests : CopyHolds(r) /\ IdKnown(r)
            /\ \A s \in ScheduleIds : Silent(s)

Kept(s)  == /\ Exists(s) /\ group'[s] = group[s] /\ time'[s] = time[s] /\ enabled'[s] = enabled[s]
            /\ wanted'[s] = wanted[s]
Fresh(s) == count < s /\ wanted'[s] = {Row(s)'} /\ after'[s] = 0

\* What every step but the two ends of a change does to the rows.
Onward      == /\ count' \in Int /\ count <= count'
               /\ \A s \in ScheduleIds : Exists(s)' => Kept(s) \/ Fresh(s)
\* It starts no change.
NoneStarted == \A q \in Requests :
    pc'[q] = "update" => pc[q] = "update" /\ local'[q] = local[q] /\ (q \in stale => q \in stale')
\* It enqueues nothing that is off, and lists only what is enabled.
Quiet       == \A s \in ScheduleIds :
    /\ after'[s] = after[s] \/ after'[s] = 0
    /\ after'[s] # 0 => Exists(s)'
    /\ s \in pass' \ pass => enabled[s] /\ Exists(s)

\* A schedule that is off is not enabled.
LEMMA OffIsDisabled ==
    ASSUME EditsAreKept, NEW s \in ScheduleIds, Off(s)
    PROVE  ~enabled[s]
BY DEF EditsAreKept, Off, Row

LEMMA EditsOnward ==
    ASSUME Typed, EditsInv, Onward, NoneStarted
    PROVE  EditsAreKept' /\ \A r \in Requests : CopyHolds(r)' /\ IdKnown(r)'
<1>0. count \in Int /\ \A q \in Requests : pc[q] = "update" => local[q].id \in ScheduleIds
    BY DEF Typed, RowsTyped, RowType, RequestsTyped, Ready
<1>1. ASSUME NEW s \in ScheduleIds, Exists(s)' PROVE Row(s)' \in wanted'[s]
    <2>1. CASE Kept(s)
        BY <1>1, <2>1 DEF Kept, EditsInv, EditsAreKept, Row
    <2>2. CASE Fresh(s)
        BY <2>2 DEF Fresh
    <2> QED BY <1>1, <2>1, <2>2 DEF Onward
<1>2. ASSUME NEW r \in Requests, pc'[r] = "update"
      PROVE  pc[r] = "update" /\ local'[r] = local[r] /\ IdKnown(r)' /\ ~Fresh(local[r].id)
    <2>1. pc[r] = "update" /\ local'[r] = local[r] /\ local[r].id <= count /\ local[r].id \in Int
        BY <1>0, <1>2 DEF NoneStarted, EditsInv, IdKnown, ScheduleIds
    <2> QED BY <1>0, <2>1 DEF IdKnown, Fresh, Onward
<1>3. ASSUME NEW r \in Requests PROVE CopyHolds(r)'
    <2> SUFFICES ASSUME pc'[r] = "update", r \notin stale',
                        NEW s, s = local'[r].id, Exists(s)'
                 PROVE  Given(Row(s)', local'[r].given, local'[r].copy) = local'[r].copy
        BY DEF CopyHolds, Exists, Row
    <2>1. pc[r] = "update" /\ local'[r] = local[r] /\ r \notin stale
        BY DEF NoneStarted
    <2>2. s \in ScheduleIds /\ s = local[r].id /\ ~Fresh(s)
        BY <1>0, <1>2, <2>1
    <2>3. Kept(s)
        BY <2>2 DEF Onward
    <2>4. Exists(s) /\ Row(s)' = Row(s)
        BY <2>3 DEF Kept, Row
    <2>5. Given(Row(s), local[r].given, local[r].copy) = local[r].copy
        BY <2>1, <2>2, <2>4 DEF EditsInv, CopyHolds
    <2> QED BY <2>1, <2>4, <2>5
<1>4. ASSUME NEW r \in Requests PROVE IdKnown(r)'
    BY <1>2 DEF IdKnown
<1> QED BY <1>1, <1>3, <1>4 DEF EditsAreKept

LEMMA SilentOnward ==
    ASSUME Typed, EditsInv, Onward, Quiet
    PROVE  \A s \in ScheduleIds : Silent(s)'
<1> TAKE s \in ScheduleIds
<1>0. after[s] \in Nat /\ Silent(s)
    BY DEF Typed, GhostType, EditsInv
<1>1. CASE after'[s] = 0
    BY <1>1 DEF Silent
<1>2. CASE after'[s] # 0
    <2>1. after'[s] = after[s] /\ after[s] # 0 /\ Exists(s)'
        BY <1>2 DEF Quiet
    <2>2. Off(s) /\ s \notin pass /\ after[s] <= 1
        BY <1>0, <2>1 DEF Silent
    <2>3. Kept(s)
        BY <1>2, <2>1 DEF Onward, Fresh
    <2>4. Off(s)'
        BY <2>1, <2>2, <2>3 DEF Off, Kept
    <2>5. s \notin pass'
        BY <2>2, OffIsDisabled DEF Quiet, EditsInv
    <2> QED BY <2>1, <2>2, <2>4, <2>5 DEF Silent
<1> QED BY <1>1, <1>2

LEMMA GoesElsewhere ==
    ASSUME RequestsTyped, NEW r \in Requests, NEW l, NEW x, Goes(r, l, x), l # "update",
           stale \ {r} \subseteq stale'
    PROVE  NoneStarted
BY DEF Goes, NoneStarted, RequestsTyped, RequestType

LEMMA FailsElsewhere ==
    ASSUME RequestsTyped, NEW r \in Requests, NEW unknown, Failing(r, unknown), stale' = stale
    PROVE  NoneStarted
BY GoesElsewhere DEF Failing, Ends

LEMMA SameOnward == Typed /\ UNCHANGED <<rowVars, wanted>> => Onward
BY DEF Typed, RowsTyped, RowType, rowVars, Onward, Kept, Exists

LEMMA SameQuiet == EditsInv /\ UNCHANGED <<rowVars, after>> /\ pass' \subseteq pass => Quiet
BY DEF EditsInv, Silent, Off, rowVars, Exists, Quiet

LEMMA DeletedOnward == ASSUME Typed, EditsInv, NEW gone, DeleteRows(gone),
UNCHANGED pass PROVE Onward /\ Quiet
<1>1. count' = count /\ count \in Int
    BY DEF Typed, RowsTyped, RowType, DeleteRows
<1>2. ASSUME NEW s \in ScheduleIds, s \notin gone, Exists(s)
      PROVE  Kept(s) /\ Exists(s)'
    <2>1. group'[s] = group[s] /\ time'[s] = time[s] /\ wanted'[s] = wanted[s]
        BY <1>2 DEF DeleteRows
    <2>2. enabled'[s] = enabled[s]
        <3>1. enabled'[s] = (s \notin gone /\ enabled[s])
            BY Zenon DEF DeleteRows
        <3>2. enabled[s] \in BOOLEAN
            BY DEF Typed, RowsTyped, RowType
        <3> QED BY <1>2, <3>1, <3>2
    <2> QED BY <1>2, <2>1, <2>2 DEF Kept, Exists
<1>3. ASSUME NEW s \in ScheduleIds, Exists(s)' PROVE s \notin gone /\ Exists(s)
    BY <1>3 DEF DeleteRows, Exists
<1>4. ASSUME NEW s \in ScheduleIds
      PROVE  (after'[s] = after[s] \/ after'[s] = 0) /\ (after'[s] # 0 => Exists(s)')
    <2>1. CASE s \in gone
        BY <2>1 DEF DeleteRows
    <2>2. CASE s \notin gone
        <3>1. after'[s] = after[s]
            BY <2>2 DEF DeleteRows
        <3>2. after[s] # 0 => Exists(s)
            BY DEF EditsInv, Silent, Off
        <3> QED BY <1>2, <2>2, <3>1, <3>2
    <2> QED BY <2>1, <2>2
<1> QED BY <1>1, <1>2, <1>3, <1>4 DEF Onward, Quiet

LEMMA InsertedOnward ==
    ASSUME Typed, EditsInv, NEW g \in Groups, g \in groups, NEW t \in Times, Insert(g, t),
           UNCHANGED <<groups, pass>>, Tells(count', {Made(g, t)})
    PROVE  Onward /\ Quiet
<1>1. /\ count' = count + 1 /\ count' \in ScheduleIds /\ count \in Int /\ ~Exists(count')
      /\ group'[count'] = g /\ time'[count'] = t /\ enabled'[count'] = TRUE
      /\ \A s \in ScheduleIds \ {count'} : Row(s)' = Row(s)
      /\ wanted \in [ScheduleIds -> SUBSET Settings] /\ after \in [ScheduleIds -> Nat]
    <2>1. enabled \in [ScheduleIds -> BOOLEAN] /\ count' \in ScheduleIds
        BY InsertTyped DEF Typed, RowsTyped, RowType
    <2>2. enabled'[count'] = TRUE
        BY <2>1 DEF Insert
    <2> QED BY <2>2, InsertTyped DEF Typed, RowsTyped, RowType, GhostType
<1>2. /\ wanted' = [wanted EXCEPT ![count'] = {Made(g, t)}]
      /\ after' = [after EXCEPT ![count'] = 0]
    BY DEF Tells, Made
<1>3. ASSUME NEW s \in ScheduleIds, s = count' PROVE Fresh(s)
    <2>1. Row(s)' = Made(g, t)
        BY <1>1, <1>3 DEF Row, Made
    <2> QED BY <1>1, <1>2, <1>3, <2>1 DEF Fresh
<1>4. ASSUME NEW s \in ScheduleIds \ {count'}
      PROVE  Row(s)' = Row(s) /\ wanted'[s] = wanted[s] /\ after'[s] = after[s]
    BY <1>1, <1>2
<1>5. ASSUME NEW s \in ScheduleIds \ {count'}, Exists(s)' PROVE Kept(s)
    BY <1>4, <1>5 DEF Kept, Row, Exists
<1>6. ASSUME NEW s \in ScheduleIds
      PROVE  (after'[s] = after[s] \/ after'[s] = 0) /\ (after'[s] # 0 => Exists(s)')
    <2>1. CASE s = count'
        BY <1>1, <1>2, <2>1
    <2>2. CASE s # count'
        <3>1. Row(s)' = Row(s) /\ after'[s] = after[s]
            BY <1>4, <2>2
        <3>2. after[s] # 0 => Exists(s)
            BY DEF EditsInv, Silent, Off
        <3> QED BY <3>1, <3>2 DEF Row, Exists
    <2> QED BY <2>1, <2>2
<1> QED BY <1>1, <1>3, <1>5, <1>6 DEF Onward, Quiet

LEMMA BatchesOnward ==
    ASSUME Typed, EditsInv, NEW r \in Requests, BatchStep(r) \/ CallFails(r) \/ CreateAnswerLost(r)
    PROVE  Onward /\ Quiet /\ NoneStarted
<1> USE DEF Typed
<1>1. CASE ListByUser(r)
    BY <1>1, SameOnward, SameQuiet, FailsElsewhere, GoesElsewhere DEF ListByUser, rowVars,
                                                                      editVars, workVars
<1>2. CASE CreateRefused(r) \/ CallFails(r)
    BY <1>2, SameOnward, SameQuiet, FailsElsewhere DEF CreateRefused, CallFails, rowVars,
                                                       editVars, workVars
<1>3. ASSUME pc[r] = "insert" PROVE local[r].copy.group \in Groups /\ Head(local[r].todo) \in Times
    <2>1. local[r] \in Locals /\ Ready(r)
        BY DEF RequestsTyped, RequestType
    <2> QED BY <1>3, <2>1, HeadTailProperties DEF Ready, Locals
<1>4. CASE Create(r)
    <2>1. Onward /\ Quiet
        <3> DEFINE g == local[r].copy.group
                   t == Head(local[r].todo)
        <3>1. /\ g \in Groups /\ t \in Times /\ g \in groups /\ Insert(g, t) /\ UNCHANGED <<groups, pass>>
              /\ Tells(count', {Made(g, t)})
            BY <1>3, <1>4 DEF Create, Insert, workVars
        <3> HIDE DEF g, t
        <3> QED BY <3>1, InsertedOnward
    <2>2. NoneStarted
        BY <1>4, GoesElsewhere DEF Create, Ends
    <2> QED BY <2>1, <2>2
<1>5. CASE CreateAnswerLost(r)
    <2>1. Onward /\ Quiet
        <3> DEFINE g == local[r].copy.group
                   t == Head(local[r].todo)
        <3>1. /\ g \in Groups /\ t \in Times /\ g \in groups /\ Insert(g, t) /\ UNCHANGED <<groups, pass>>
              /\ Tells(count', {Made(g, t)})
            BY <1>3, <1>5 DEF CreateAnswerLost, workVars
        <3> HIDE DEF g, t
        <3> QED BY <3>1, InsertedOnward
    <2> QED BY <1>5, <2>1, FailsElsewhere DEF CreateAnswerLost
<1>6. CASE RollBack(r)
    <2>1. Onward /\ Quiet
        BY <1>6, SameOnward, SameQuiet, DeletedOnward DEF RollBack, editVars, workVars
    <2>2. NoneStarted
        BY <1>6, GoesElsewhere DEF RollBack, Ends, DeleteRows, editVars
    <2> QED BY <2>1, <2>2
<1> QED BY <1>1, <1>2, <1>4, <1>5, <1>6 DEF BatchStep

LEMMA WorkOnward ==
    ASSUME Typed, EditsInv, NEW s \in ScheduleIds,
           Delete(s) \/ Run(s) \/ CreateRun(s) \/ CreateRunRefused(s)
    PROVE  Onward /\ Quiet /\ NoneStarted
<1>1. Onward /\ Quiet
    BY SameOnward, SameQuiet, DeletedOnward
       DEF Delete, Run, CreateRun, Collect, CreateRunRefused, editVars, workVars
<1>2. UNCHANGED <<pc, local, stale>>
    BY DEF Delete, Run, CreateRun, Collect, CreateRunRefused, DeleteRows, editVars
<1> QED BY <1>1, <1>2 DEF NoneStarted

LEMMA OthersOnward ==
    ASSUME Typed, EditsInv,
                  \/ UNCHANGED vars
                  \/ \E r \in Requests : UpdateRefused(r) \/ Crash(r)
                  \/ \E r \in Requests, g \in Groups, b \in Batches : createSchedules(r, g, b)
                  \/ \E g \in Groups : DeleteGroup(g)
                  \/ \E picked \in SUBSET ScheduleIds : ListEnabled(picked)
                  \/ \E succeeded \in BOOLEAN : EndRun(succeeded)
                  \/ NextDay
    PROVE  Onward /\ Quiet /\ NoneStarted
<1>1. CASE UNCHANGED vars
    BY <1>1, SameOnward, SameQuiet DEF vars, editVars, workVars, NoneStarted
<1>2. ASSUME NEW r \in Requests, UpdateRefused(r) \/ Crash(r) PROVE Onward /\ Quiet /\ NoneStarted
    BY <1>2, SameOnward, SameQuiet, GoesElsewhere DEF UpdateRefused, Crash, Ends, workVars, Typed
<1>3. ASSUME NEW r \in Requests, NEW g, NEW b, createSchedules(r, g,
b) PROVE Onward /\ Quiet /\ NoneStarted
    BY <1>3, SameOnward, SameQuiet, GoesElsewhere DEF createSchedules, editVars, workVars, Typed
<1>4. ASSUME NEW g, DeleteGroup(g) PROVE Onward /\ Quiet /\ NoneStarted
    BY <1>4, DeletedOnward DEF DeleteGroup, DeleteRows, NoneStarted, workVars
<1>5. ASSUME NEW picked, ListEnabled(picked) PROVE Onward /\ Quiet /\ NoneStarted
    <2>1. UNCHANGED <<rowVars, wanted, after, stale, pc,
    local>> /\ \A s \in pass' : enabled[s] /\ Exists(s)
        BY <1>5 DEF ListEnabled, Due, editVars
    <2>2. \A s \in ScheduleIds : after[s] # 0 => Exists(s)'
        BY <2>1 DEF EditsInv, Silent, Off, Exists, rowVars
    <2> QED BY <2>1, <2>2, SameOnward DEF Quiet, NoneStarted
<1>6. ASSUME NEW succeeded, EndRun(succeeded) \/ NextDay PROVE Onward /\ Quiet /\ NoneStarted
    <2>1. UNCHANGED <<count, group, time, enabled, wanted, after, stale, pass, pc, local>>
        BY <1>6 DEF EndRun, NextDay, editVars, workVars
    <2>2. \A s \in ScheduleIds : after[s] # 0 => Exists(s)'
        BY <2>1 DEF EditsInv, Silent, Off, Exists
    <2> QED BY <2>1, <2>2 DEF Typed, RowsTyped, RowType, Onward, Quiet, Kept, Exists, NoneStarted
<1> QED BY <1>1, <1>2, <1>3, <1>4, <1>5, <1>6

LEMMA EditsInvOnward == Typed /\ EditsInv /\ Onward /\ Quiet /\ NoneStarted => EditsInv'
BY EditsOnward, SilentOnward DEF EditsInv

\* One job more is counted only of a schedule that is off and was listed before it was.
LEMMA EditsEnqueued == ASSUME Typed, EditsInv, NEW s \in ScheduleIds, Enqueue(s) PROVE EditsInv'
<1>1. UNCHANGED <<rowVars, wanted, stale, pc, local>> /\ pass' = pass \ {s} /\ s \in pass
    BY DEF Enqueue
<1>2. EditsAreKept' /\ \A r \in Requests : CopyHolds(r)' /\ IdKnown(r)'
    BY <1>1, SameOnward, EditsOnward DEF NoneStarted
<1>3. ASSUME NEW u \in ScheduleIds PROVE Silent(u)'
    <2>0. after \in [ScheduleIds -> Nat] /\ Silent(u) /\ (Off(u)' <=> Off(u))
        BY <1>1 DEF Typed, GhostType, EditsInv, Off, rowVars, Exists
    <2>1. CASE u # s \/ ~Off(s)
        <3>1. after'[u] = after[u]
            BY <2>0, <2>1 DEF Enqueue
        <3> QED BY <1>1, <2>0, <3>1 DEF Silent
    <2>2. CASE u = s /\ Off(s)
        <3>1. after[s] = 0
            BY <1>1, <2>0, <2>2 DEF Silent
        <3>2. after'[s] = 1
            BY <2>0, <2>2, <3>1 DEF Enqueue
        <3> QED BY <1>1, <2>0, <2>2, <3>2 DEF Silent
    <2> QED BY <2>1, <2>2
<1> QED BY <1>2, <1>3 DEF EditsInv

\* A change begins: its copy is the row, with what it gives.
LEMMA GivenTwice == ASSUME NEW w, NEW f, NEW c PROVE Given(Given(w, f, c), f, c) = Given(w, f, c)
BY DEF Given

LEMMA GivenItself == ASSUME NEW w, NEW f, NEW c PROVE Given(w, f, Given(w, f, c)) = Given(w, f, c)
BY DEF Given

LEMMA ChangeBegins ==
    ASSUME Typed, EditsInv, NEW r \in Requests, NEW s \in ScheduleIds, NEW f \in Forms,
           NEW c, requireSchedule(r, s, f, c)
    PROVE  EditsInv'
<1> DEFINE x == [NoLocals EXCEPT !.id = s, !.given = f, !.copy = Given(Row(s), f, c)]
<1>1. UNCHANGED <<rowVars, wanted, after, stale, pass>> /\ Exists(s) /\ Goes(r, "update", x)
    BY DEF requireSchedule, editVars, workVars
<1>2. x.id = s /\ x.given = f /\ x.copy = Given(Row(s), f, c)
    BY DEF NoLocals
<1> HIDE DEF x
<1>3. /\ pc'[r] = "update" /\ local'[r] = x
      /\ \A q \in Requests \ {r} : pc'[q] = pc[q] /\ local'[q] = local[q]
    BY <1>1 DEF Goes, Typed, RequestsTyped, RequestType
<1>4. /\ \A u \in ScheduleIds : Row(u)' = Row(u) /\ (Exists(u)' <=> Exists(u)) /\ (Off(u)' <=> Off(u))
      /\ count' = count
    BY <1>1 DEF rowVars, Row, Exists, Off
<1>5. EditsAreKept' /\ \A u \in ScheduleIds : Silent(u)'
    BY <1>1, <1>4 DEF EditsInv, EditsAreKept, Silent
<1>6. CopyHolds(r)' /\ IdKnown(r)'
    <2>1. s <= count
        BY <1>1 DEF Typed, RowsTyped
    <2>2. Given(Row(s), x.given, x.copy) = x.copy
        BY <1>2, GivenItself
    <2> QED BY <1>2, <1>3, <1>4, <2>1, <2>2 DEF CopyHolds, IdKnown
<1>7. ASSUME NEW q \in Requests \ {r} PROVE CopyHolds(q)' /\ IdKnown(q)'
    <2>1. CopyHolds(q) /\ IdKnown(q) /\ pc'[q] = pc[q] /\ local'[q] = local[q] /\ stale' = stale
        BY <1>1, <1>3 DEF EditsInv
    <2>2. pc[q] = "update" => local[q].id \in ScheduleIds
        BY DEF Typed, RequestsTyped, Ready
    <2> QED BY <1>4, <2>1, <2>2 DEF CopyHolds, IdKnown
<1> QED BY <1>5, <1>6, <1>7 DEF EditsInv

\* A change ends: the row becomes the copy, which is what the change makes of the row, and
\* the copies of the other changes of the schedule become stale.
LEMMA RewriteKeeps ==
    ASSUME Typed, EditsInv, NEW r \in Requests, Rewrite(r), NEW x, x = local[r],
           NEW s, s = x.id, NEW W, Expected(r) \subseteq W, Tells(s, W)
    PROVE  EditsInv'
<1>1. /\ pc[r] = "update" /\ Exists(s) /\ Store(s, x.copy) /\ Ends(r) /\ UNCHANGED pass
      /\ stale' = (stale \cup Changing(s)) \ {r} /\ Tells(s, W)
    BY DEF Rewrite, workVars
<1>2. x \in Locals /\ s \in ScheduleIds /\ CopyHolds(r) /\ x.copy \in Settings
    BY <1>1 DEF Typed, RequestsTyped, RequestType, Ready, EditsInv, Locals
<1>3. /\ pc'[r] = "idle" /\ \A q \in Requests \ {r} : pc'[q] = pc[q] /\ local'[q] = local[q]
    BY <1>1, EndsTyped DEF Typed
<1>4. /\ count' = count
      /\ group'[s] = x.copy.group /\ time'[s] = x.copy.time /\ enabled'[s] = x.copy.enabled
      /\ wanted'[s] = W
      /\ after'[s] = IF \A w \in W : ~w.enabled THEN after[s] ELSE 0
      /\ \A u \in ScheduleIds \ {s} : /\ group'[u] = group[u] /\ time'[u] = time[u]
                                      /\ enabled'[u] = enabled[u] /\ wanted'[u] = wanted[u]
                                      /\ after'[u] = after[u]
    BY <1>1, <1>2 DEF Store, Tells, Typed, RowsTyped, RowType, GhostType
<1>5. Row(s)' = x.copy
    BY <1>2, <1>4 DEF Row, Settings
<1>6. x.copy \in W
    <2>1. CASE r \in stale
        BY <2>1 DEF Expected
    <2>2. CASE r \notin stale
        <3>1. Given(Row(s), x.given, x.copy) = x.copy
            BY <1>1, <2>2 DEF EditsInv, CopyHolds
        <3>2. Row(s) \in wanted[s]
            BY <1>1, <1>2 DEF EditsInv, EditsAreKept
        <3> QED BY <3>1, <3>2 DEF Expected
    <2> QED BY <2>1, <2>2
<1>7. EditsAreKept'
    <2>1. ASSUME NEW u \in ScheduleIds, Exists(u)', u # s PROVE Row(u)' \in wanted'[u]
        BY <1>4, <2>1 DEF EditsInv, EditsAreKept, Row, Exists
    <2> QED BY <1>4, <1>5, <1>6, <2>1 DEF EditsAreKept
<1>8. ASSUME NEW q \in Requests PROVE CopyHolds(q)' /\ IdKnown(q)'
    <2>1. CASE pc'[q] # "update"
        BY <2>1 DEF CopyHolds, IdKnown
    <2>2. CASE pc'[q] = "update"
        <3> PICK u : u = local[q].id
            OBVIOUS
        <3>1. q # r /\ pc[q] = "update" /\ local'[q] = local[q] /\ CopyHolds(q) /\ IdKnown(q)
            BY <1>3, <2>2 DEF EditsInv
        <3>2. u \in ScheduleIds
            BY <3>1 DEF Typed, RequestsTyped, Ready
        <3>3. CASE u = s
            <4>1. q \in stale'
                BY <1>1, <3>1, <3>3 DEF Changing
            <4> QED BY <1>4, <3>1, <4>1 DEF CopyHolds, IdKnown
        <3>4. CASE u # s
            <4>1. Row(u)' = Row(u) /\ (Exists(u)' <=> Exists(u)) /\ (q \notin stale' => q \notin stale)
                BY <1>1, <1>4, <3>1, <3>2, <3>4 DEF Row, Exists
            <4> QED BY <1>4, <3>1, <4>1 DEF CopyHolds, IdKnown
        <3> QED BY <3>3, <3>4
    <2> QED BY <2>1, <2>2
<1>9. ASSUME NEW u \in ScheduleIds PROVE Silent(u)'
    <2>0. Silent(u) /\ pass' = pass
        BY <1>1 DEF EditsInv
    <2>1. CASE u # s
        BY <1>4, <2>0, <2>1 DEF Silent, Off, Exists
    <2>2. CASE u = s
        <3>1. Exists(s)'
            <4>1. x.copy.group # NoGroup
                BY ScheduleTableAssumption DEF Rewrite, Typed, RowsTyped, RowType
            <4> QED BY <1>4, <4>1 DEF Exists
        <3>2. CASE after'[s] = 0
            BY <2>2, <3>2 DEF Silent
        <3>3. CASE after'[s] # 0
            <4>1. (\A w \in W : ~w.enabled) /\ after'[s] = after[s]
                BY <1>4, <3>3
            <4> QED BY <1>4, <2>0, <2>2, <3>1, <4>1 DEF Silent, Off
        <3> QED BY <3>2, <3>3
    <2> QED BY <2>1, <2>2
<1> QED BY <1>7, <1>8, <1>9 DEF EditsInv

LEMMA EditsStep == Typed /\ EditsInv /\ [Next]_vars => EditsInv'
<1> SUFFICES ASSUME Typed, EditsInv, [Next]_vars PROVE EditsInv'
    OBVIOUS
<1>1. CASE Onward /\ Quiet /\ NoneStarted
    BY <1>1, EditsInvOnward
<1>2. ASSUME NEW r \in Requests, Arrives(r) PROVE EditsInv'
    BY <1>1, <1>2, ChangeBegins, OthersOnward DEF Arrives
<1>3. ASSUME NEW r \in Requests, Update(r) \/ UpdateAnswerLost(r) PROVE EditsInv'
    BY <1>3, RewriteKeeps DEF Update, UpdateAnswerLost
<1>4. ASSUME NEW r \in Requests,
             BatchStep(r) \/ UpdateRefused(r) \/ CallFails(r) \/ CreateAnswerLost(r) \/ Crash(r)
      PROVE  EditsInv'
    BY <1>1, <1>4, BatchesOnward, OthersOnward
<1> QED BY <1>1, <1>2, <1>3, <1>4, WorkOnward, EditsEnqueued, OthersOnward DEF Next

LEMMA EditsAlways == Spec => [](Typed /\ EditsInv)
<1>1. Init => EditsInv
    BY DEF Init, EditsInv, EditsAreKept, CopyHolds, IdKnown, Silent, Exists
<1> QED BY <1>1, InitTyped, NextTyped, EditsStep, PTL DEF Spec

\* A row holds what the changes the owner was told of make of it.  A change writes the
\* whole row from its copy, which is the row as it is unless another change was stored
\* since: only then, and after a lost answer, the owner cannot know (Update, SetEnabled).
THEOREM ChangesAreKept == Spec => []EditsAreKept
BY EditsAlways, PTL DEF EditsInv

\* A schedule that the owner can only take for disabled is enqueued at most once more:
\* ListEnabled reads rows that agree with what the owner knows, so only the list that was
\* read before can still hold it, and that holds it once (EnqueueDue).
THEOREM OffComesToRest == Spec => []OffStops
<1>1. EditsInv => OffStops
    BY DEF EditsInv, Silent, OffStops
<1> QED BY <1>1, EditsAlways, PTL

-----------------------------------------------------------------------------
\* Batches.

\* Schedules keep their numbers: what exists after a step and is not new existed before.
Older == /\ count' \in Int /\ count <= count'
         /\ \A s \in ScheduleIds : s <= count /\ Exists(s)' => Exists(s)

LEMMA RowsOlder == Typed /\ [Next]_vars => Older
<1> SUFFICES ASSUME Typed, [Next]_vars PROVE Older
    OBVIOUS
<1>0. count \in Int /\ group \in [ScheduleIds -> Groups \cup {NoGroup}]
    BY DEF Typed, RowsTyped, RowType
<1>1. CASE Leaves \/ Records \/ EndsRun \/ NextDay
    BY <1>0, <1>1 DEF Leaves, Records, CreateRun, Collect, EndsRun, EndRun, NextDay, rowVars,
                      Exists, Older
<1>2. CASE Deletes
    BY <1>0, <1>2 DEF Deletes, DeleteRows, Exists, Older
<1>3. CASE Inserts
    BY <1>0, <1>3 DEF Inserts, Insert, Exists, Older, ScheduleIds
<1>4. CASE Stores
    <2> PICK u \in ScheduleIds, c \in Settings : Exists(u) /\ Store(u, c)
        BY <1>4 DEF Stores
    <2> QED BY <1>0 DEF Store, Exists, Older
<1> QED BY <1>1, <1>2, <1>3, <1>4, StepKinds

\* What the batches know of is numbered already.
Numbered == /\ \A s \in undone : s <= count
            /\ \A r \in Requests : \A s \in local[r].made : s <= count

\* What is to go is being undone or has an event to blame.
Accounted == \A s \in undone : Exists(s) =>
    blame[s] # 0 \/ \E r \in Requests : pc[r] = "undo" /\ s \in local[r].made

\* Events are blamed after they happened, and only a death for several schedules.
BlamedOnce == /\ \A s \in ScheduleIds : blame[s] <= events
              /\ \A s, u \in ScheduleIds : blame[s] # 0 /\ blame[u] = blame[s] => u = s \/ blame[s] \in deaths

WholeInv == Accounted /\ Numbered

LEMMA StillNumbered ==
    ASSUME Typed, Numbered, Older, NEW r \in Requests, NEW n, n = count',
           undone' \subseteq undone \cup local[r].made \cup {n},
           local'[r].made \subseteq local[r].made \cup 1..n,
           \A q \in Requests \ {r} : local'[q] = local[q]
    PROVE  Numbered'
<1>0. /\ count \in Int /\ n \in Int /\ count <= n /\ undone \subseteq ScheduleIds
      /\ \A q \in Requests : local[q].made \subseteq ScheduleIds
    BY DEF Typed, RowsTyped, RowType, GhostType, RequestsTyped, RequestType, Locals, Older
<1>1. ASSUME NEW s \in undone' PROVE s <= count'
    <2>1. CASE s = n
        BY <1>0, <2>1
    <2>2. CASE s \in undone \cup local[r].made
        <3>1. s <= count /\ s \in Int
            BY <1>0, <2>2, ScheduleTableAssumption DEF Numbered, ScheduleIds
        <3> QED BY <1>0, <3>1
    <2> QED BY <2>1, <2>2
<1>2. \A s \in local'[r].made : s <= count'
    BY <1>0 DEF Numbered, ScheduleIds
<1>3. ASSUME NEW q \in Requests \ {r}, NEW s \in local[q].made PROVE s <= count'
    BY <1>0 DEF Numbered, ScheduleIds
<1> QED BY <1>1, <1>2, <1>3 DEF Numbered

\* What a request may leave: what it undoes, what has an event to blame, and what was
\* accounted for without it.
LEMMA StillAccounted ==
    ASSUME Typed, WholeInv, Older, NEW r \in Requests,
           \A q \in Requests \ {r} : pc'[q] = pc[q] /\ local'[q] = local[q],
           \A s \in undone' : Exists(s)' =>
               \/ blame'[s] # 0
               \/ pc'[r] = "undo" /\ s \in local'[r].made
               \/ s \in undone /\ blame'[s] = blame[s] /\ ~(pc[r] = "undo" /\ s \in local[r].made)
    PROVE  Accounted'
<1> SUFFICES ASSUME NEW s \in undone', Exists(s)', blame'[s] = 0
             PROVE  \E q \in Requests : pc'[q] = "undo" /\ s \in local'[q].made
    BY DEF Accounted
<1>1. CASE s \in undone /\ blame[s] = 0 /\ ~(pc[r] = "undo" /\ s \in local[r].made)
    <2>1. s \in ScheduleIds /\ s <= count
        BY <1>1 DEF WholeInv, Numbered, Typed, GhostType
    <2>2. Exists(s)
        BY <2>1 DEF Older
    <2>3. PICK q \in Requests : pc[q] = "undo" /\ s \in local[q].made
        BY <1>1, <2>2 DEF WholeInv, Accounted
    <2> QED BY <1>1, <2>3
<1> QED BY <1>1

LEMMA FailsWhole ==
    ASSUME Typed, WholeInv, Older, NEW r \in Requests, pc[r] # "undo",
           NEW n, n = count', NEW unknown \in SUBSET ScheduleIds, unknown \subseteq {n},
           Failing(r, unknown),
           \A s \in unknown : blame'[s] # 0, \A s \in ScheduleIds \ unknown : blame'[s] = blame[s]
    PROVE  WholeInv'
<1>1. /\ pc'[r] = "idle" => local[r].made = {}
      /\ pc'[r] = "undo" => local'[r] = local[r]
      /\ pc'[r] \in {"idle", "undo"}
      /\ \A q \in Requests \ {r} : pc'[q] = pc[q] /\ local'[q] = local[q]
      /\ undone' = undone \cup local[r].made \cup unknown /\ undone' \subseteq ScheduleIds
    BY FailingTyped DEF Typed
<1>2. pc'[r] = "idle" => local'[r].made = {}
    <2>1. CASE local[r].made = {}
        BY <2>1 DEF Failing, Ends, Goes, NoLocals, Typed, RequestsTyped, RequestType
    <2> QED BY <1>1, <2>1
<1>3. local'[r].made \subseteq local[r].made
    BY <1>1, <1>2
<1>4. Numbered'
    BY <1>1, <1>3, StillNumbered DEF WholeInv
<1>5. ASSUME NEW s \in undone'
      PROVE  \/ blame'[s] # 0
             \/ pc'[r] = "undo" /\ s \in local'[r].made
             \/ s \in undone /\ blame'[s] = blame[s] /\ pc[r] # "undo"
    BY <1>1
<1>6. Accounted'
    BY <1>1, <1>5, StillAccounted
<1> QED BY <1>4, <1>6 DEF WholeInv

\* A request that goes on, or ends, without undoing anything.
LEMMA GoesWhole ==
    ASSUME Typed, WholeInv, Older, NEW r \in Requests, NEW l, NEW x, NEW n, n = count', Goes(r,
    l, x),
           pc[r] # "undo", x.made \subseteq local[r].made \cup 1..n, UNCHANGED <<undone, blame>>
    PROVE  WholeInv'
<1>1. /\ pc'[r] = l /\ local'[r] = x
      /\ \A q \in Requests \ {r} : pc'[q] = pc[q] /\ local'[q] = local[q]
    BY DEF Goes, Typed, RequestsTyped, RequestType
<1>2. Numbered'
    BY <1>1, StillNumbered DEF WholeInv
<1>3. Accounted'
    BY <1>1, StillAccounted
<1> QED BY <1>2, <1>3 DEF WholeInv

LEMMA RollsBackWhole ==
    ASSUME Typed, WholeInv, Older, NEW r \in Requests, RollBack(r)
    PROVE  WholeInv'
<1> DEFINE m == local[r].made
           z == CHOOSE z \in m : \A y \in m : z <= y
<1>1. PICK s : /\ pc[r] = "undo"
               /\ \/ DeleteRows({s})
                  \/ Event /\ Leave(s)
               /\ \/ m = {s} /\ Ends(r)
                  \/ m # {s} /\ Goes(r, "undo", [local[r] EXCEPT !.made = m \ {s}])
    <2>1. \/ DeleteRows({z})
          \/ Event /\ Leave(z)
        BY DEF RollBack
    <2>2. \/ m = {z} /\ Ends(r)
          \/ m # {z} /\ Goes(r, "undo", [local[r] EXCEPT !.made = m \ {z}])
        BY DEF RollBack
    <2>3. pc[r] = "undo"
        BY DEF RollBack
    <2> QED BY <2>1, <2>2, <2>3
<1>2. /\ \/ m = {s} /\ pc'[r] = "idle" /\ local'[r].made = {}
         \/ m # {s} /\ pc'[r] = "undo" /\ local'[r].made = m \ {s}
      /\ \A q \in Requests \ {r} : pc'[q] = pc[q] /\ local'[q] = local[q]
    <2>1. local[r] \in Locals
        BY DEF Typed, RequestsTyped, RequestType
    <2> QED BY <1>1, <2>1 DEF Ends, Goes, NoLocals, Locals, Typed, RequestsTyped, RequestType
<1> HIDE DEF z
<1>3. undone' \subseteq undone /\ undone \subseteq ScheduleIds
    BY <1>1 DEF DeleteRows, Leave, Typed, GhostType
<1>4. ASSUME NEW u \in undone' PROVE blame'[u] # 0 \/ (u # s /\ blame'[u] = blame[u])
    <2>1. CASE DeleteRows({s})
        BY <1>3, <1>4, <2>1 DEF DeleteRows
    <2>2. CASE Event /\ Leave(s)
        <3>1. blame' = [blame EXCEPT ![s] = events'] /\ events' \in 1..MaxEvents /\ u \in ScheduleIds
            BY <1>3, <2>2, EventTyped DEF Leave, Typed
        <3>2. blame \in [ScheduleIds -> 0..MaxEvents]
            BY DEF Typed, GhostType
        <3>3. events' # 0
            BY <3>1
        <3> QED BY <3>1, <3>2, <3>3
    <2> QED BY <1>1, <2>1, <2>2
<1>5. ASSUME NEW u \in undone'
      PROVE  \/ blame'[u] # 0
             \/ pc'[r] = "undo" /\ u \in local'[r].made
             \/ u \in undone /\ blame'[u] = blame[u] /\ ~(pc[r] = "undo" /\ u \in m)
    BY <1>2, <1>3, <1>4
<1>6. Accounted'
    BY <1>2, <1>5, StillAccounted
<1>7. Numbered'
    <2>1. local'[r].made \subseteq m
        BY <1>2
    <2>2. PICK n : n = count'
        OBVIOUS
    <2> QED BY <1>2, <1>3, <2>1, <2>2, StillNumbered DEF WholeInv
<1> QED BY <1>6, <1>7 DEF WholeInv

LEMMA CrashesWhole ==
    ASSUME Typed, WholeInv, Older, NEW r \in Requests, Crash(r)
    PROVE  WholeInv'
<1>1. /\ local'[r].made = {} /\ undone' = undone \cup local[r].made
      /\ \A q \in Requests \ {r} : pc'[q] = pc[q] /\ local'[q] = local[q]
    BY DEF Crash, Ends, Goes, NoLocals, Typed, RequestsTyped, RequestType
<1>2. /\ events' # 0 /\ undone' \subseteq ScheduleIds
      /\ blame' = [s \in ScheduleIds |-> IF s \in local[r].made THEN events' ELSE blame[s]]
    <2>1. events' \in 1..MaxEvents
        BY EventTyped DEF Crash, Typed
    <2>2. undone \subseteq ScheduleIds /\ local[r].made \subseteq ScheduleIds
        BY DEF Typed, GhostType, RequestsTyped, RequestType, Locals
    <2> QED BY <1>1, <2>1, <2>2 DEF Crash
<1>3. ASSUME NEW s \in undone'
      PROVE  blame'[s] # 0 \/ (s \in undone /\ blame'[s] = blame[s] /\ s \notin local[r].made)
    BY <1>1, <1>2
<1>4. Accounted'
    BY <1>1, <1>3, StillAccounted
<1>5. Numbered'
    <2>1. PICK n : n = count'
        OBVIOUS
    <2> QED BY <1>1, <2>1, StillNumbered DEF WholeInv
<1> QED BY <1>4, <1>5 DEF WholeInv

LEMMA SameWhole ==
    ASSUME Typed, WholeInv, Older, UNCHANGED <<pc, local>>,
           \A s \in undone' : s \in undone /\ blame'[s] = blame[s]
    PROVE  WholeInv'
<1>1. count \in Int /\ undone \subseteq ScheduleIds /\ \A q \in Requests : local[q].made \subseteq ScheduleIds
    BY DEF Typed, RowsTyped, RowType, GhostType, RequestsTyped, RequestType, Locals
<1>2. Numbered'
    BY <1>1 DEF WholeInv, Numbered, Older, ScheduleIds
<1>3. Accounted'
    BY <1>1 DEF WholeInv, Accounted, Numbered, Older
<1> QED BY <1>2, <1>3 DEF WholeInv

LEMMA DeletionsWhole ==
    ASSUME Typed, NEW gone, DeleteRows(gone)
    PROVE  \A s \in undone' : s \in undone /\ blame'[s] = blame[s]
BY DEF DeleteRows, Typed, GhostType

LEMMA RequestsWhole ==
    ASSUME Typed, WholeInv, Older, NEW r \in Requests,
           Arrives(r) \/ BatchStep(r) \/ Update(r) \/ UpdateAnswerLost(r) \/ UpdateRefused(r)
               \/ CallFails(r) \/ CreateAnswerLost(r) \/ Crash(r)
    PROVE  WholeInv'
<1>0. /\ local[r] \in Locals /\ count \in Int /\ 0 <= count
      /\ {} \in SUBSET ScheduleIds /\ blame \in [ScheduleIds -> 0..MaxEvents]
    BY DEF Typed, RowsTyped, RowType, RequestsTyped, RequestType, GhostType
<1>1. NoLocals.made = {}
    BY DEF NoLocals
<1>2. ASSUME NEW g, NEW b, createSchedules(r, g, b) PROVE WholeInv'
    BY <1>1, <1>2, GoesWhole DEF createSchedules, batchVars, NoLocals
<1>3. ASSUME NEW s, NEW f, NEW c, requireSchedule(r, s, f, c) PROVE WholeInv'
    BY <1>1, <1>3, GoesWhole DEF requireSchedule, batchVars, NoLocals
<1>4. CASE ListByUser(r)
    BY <1>0, <1>4, FailsWhole, GoesWhole DEF ListByUser
<1>5. CASE Create(r)
    <2> DEFINE x == local[r]
               y == [x EXCEPT !.todo = Tail(x.todo), !.made = @ \cup {count + 1}]
    <2>0. PICK n : n = count'
        OBVIOUS
    <2>1. y.made \subseteq x.made \cup 1..n
        BY <1>0, <1>5, <2>0 DEF Create, Insert, Locals
    <2>2. Ends(r) \/ Goes(r, "list", y)
        BY <1>5 DEF Create
    <2>3. pc[r] = "insert" /\ UNCHANGED <<undone, blame>>
        BY <1>5 DEF Create
    <2> HIDE DEF y
    <2>4. CASE Ends(r)
        BY <1>1, <2>0, <2>3, <2>4, GoesWhole DEF Ends
    <2>5. CASE Goes(r, "list", y)
        BY <2>0, <2>1, <2>3, <2>5, GoesWhole
    <2> QED BY <2>2, <2>4, <2>5
<1>6. CASE CreateRefused(r) \/ CallFails(r)
    BY <1>0, <1>6, FailsWhole DEF CreateRefused, CallFails
<1>7. CASE CreateAnswerLost(r)
    <2>1. PICK n : n = count'
        OBVIOUS
    <2>2. n \in ScheduleIds /\ pc[r] = "insert" /\ Failing(r, {n})
        <3>1. n \in ScheduleIds
            BY <1>0, <1>7, <2>1, ScheduleTableAssumption DEF CreateAnswerLost, Insert, ScheduleIds
        <3> QED BY <1>7, <2>1, <3>1 DEF CreateAnswerLost, Failing
    <2>3. blame' = [blame EXCEPT ![n] = events'] /\ events' # 0
        <3>1. events' \in 1..MaxEvents
            BY <1>7, EventTyped DEF CreateAnswerLost, Typed
        <3> QED BY <1>7, <2>1, <3>1 DEF CreateAnswerLost
    <2>4. blame'[n] # 0 /\ \A s \in ScheduleIds \ {n} : blame'[s] = blame[s]
        BY <1>0, <2>2, <2>3
    <2> QED BY <2>1, <2>2, <2>4, FailsWhole
<1>8. CASE RollBack(r) \/ Crash(r)
    BY <1>8, RollsBackWhole, CrashesWhole
<1>9. CASE Update(r) \/ UpdateAnswerLost(r) \/ UpdateRefused(r)
    <2>1. pc[r] = "update" /\ Ends(r) /\ UNCHANGED <<undone, blame>>
        BY <1>9 DEF Update, UpdateAnswerLost, Rewrite, UpdateRefused, batchVars
    <2> QED BY <1>1, <2>1, GoesWhole DEF Ends
<1> QED BY <1>2, <1>3, <1>4, <1>5, <1>6, <1>7, <1>8, <1>9 DEF Arrives, BatchStep

LEMMA WholeStep == Typed /\ WholeInv /\ [Next]_vars => WholeInv'
<1> SUFFICES ASSUME Typed, WholeInv, [Next]_vars PROVE WholeInv'
    OBVIOUS
<1>1. Older
    BY RowsOlder
<1>2. CASE UNCHANGED <<pc, local, undone, blame>>
    BY <1>1, <1>2, SameWhole
<1>3. CASE UNCHANGED vars
    BY <1>2, <1>3 DEF vars, batchVars
<1>4. CASE \E r \in Requests : \/ Arrives(r) \/ BatchStep(r) \/ Update(r) \/ UpdateAnswerLost(r)
                               \/ UpdateRefused(r) \/ CallFails(r) \/ CreateAnswerLost(r) \/ Crash(r)
    BY <1>1, <1>4, RequestsWhole
<1>5. CASE \/ \E s \in ScheduleIds : Run(s) \/ Enqueue(s) \/ CreateRun(s) \/ CreateRunRefused(s)
           \/ \E picked \in SUBSET ScheduleIds : ListEnabled(picked)
           \/ \E succeeded \in BOOLEAN : EndRun(succeeded)
           \/ NextDay
    <2>1. UNCHANGED <<pc, local, undone, blame>>
        BY <1>5 DEF Run, Enqueue, CreateRun, Collect, CreateRunRefused, ListEnabled, EndRun,
                    NextDay, batchVars
    <2> QED BY <1>2, <2>1
<1>6. CASE (\E s \in ScheduleIds : Delete(s)) \/ (\E g \in Groups : DeleteGroup(g))
    <2>1. PICK gone : DeleteRows(gone) /\ UNCHANGED <<pc, local>>
        BY <1>6 DEF Delete, DeleteGroup
    <2> QED BY <1>1, <2>1, DeletionsWhole, SameWhole
<1> QED BY <1>3, <1>4, <1>5, <1>6 DEF Next

\* An event is blamed for one schedule more, or for those a request made that died.
LEMMA BlameStep == Typed /\ BlamedOnce /\ [Next]_vars => BlamedOnce'
<1> SUFFICES ASSUME Typed, BlamedOnce, [Next]_vars PROVE BlamedOnce'
    OBVIOUS
<1>0. blame \in [ScheduleIds -> 0..MaxEvents] /\ events \in 0..MaxEvents /\ MaxEvents \in Nat
    BY ScheduleTableAssumption DEF Typed, GhostType, RequestsTyped, RequestType
<1>1. ASSUME \A s \in ScheduleIds : blame'[s] = blame[s] \/ blame'[s] = 0, deaths \subseteq deaths',
             events' \in Int, events <= events'
      PROVE  BlamedOnce'
    BY <1>0, <1>1 DEF BlamedOnce
<1>2. ASSUME NEW n, blame' = [blame EXCEPT ![n] = events'], deaths' = deaths, events' = events + 1
      PROVE  BlamedOnce'
    <2>1. \A s \in ScheduleIds \ {n} : blame'[s] = blame[s] /\ blame'[s] <= events /\ blame'[s] \in Int
        BY <1>0, <1>2 DEF BlamedOnce
    <2>2. n \in ScheduleIds => blame'[n] = events + 1
        BY <1>0, <1>2
    <2> QED BY <1>0, <1>2, <2>1, <2>2 DEF BlamedOnce
<1>3. ASSUME NEW r \in Requests, Crash(r) PROVE BlamedOnce'
    <2> DEFINE m == local[r].made
    <2>1. /\ events' = events + 1
          /\ blame' = [s \in ScheduleIds |-> IF s \in m THEN events' ELSE blame[s]]
          /\ deaths' = IF m = {} THEN deaths ELSE deaths \cup {events'}
        BY <1>3, EventTyped DEF Crash, Typed
    <2>2. /\ \A s \in ScheduleIds \ m : blame'[s] = blame[s] /\ blame'[s] <= events /\ blame'[s] \in Int
          /\ \A s \in m \cap ScheduleIds : blame'[s] = events + 1 /\ events + 1 \in deaths'
          /\ deaths \subseteq deaths'
        BY <1>0, <2>1 DEF BlamedOnce
    <2> HIDE DEF m
    <2>3. ASSUME NEW s \in ScheduleIds PROVE blame'[s] <= events'
        BY <1>0, <2>1, <2>2
    <2>4. ASSUME NEW s \in ScheduleIds, NEW u \in ScheduleIds, blame'[s] # 0, blame'[u] = blame'[s]
          PROVE  u = s \/ blame'[s] \in deaths'
        <3>1. CASE s \in m
            BY <2>2, <3>1
        <3>2. CASE s \notin m
            <4>1. blame'[s] = blame[s] /\ blame[s] <= events /\ blame[s] \in Int
                BY <2>2, <3>2
            <4>2. u \notin m
                BY <1>0, <2>2, <2>4, <4>1
            <4> QED BY <2>2, <2>4, <4>1, <4>2 DEF BlamedOnce
        <3> QED BY <3>1, <3>2
    <2> QED BY <2>3, <2>4 DEF BlamedOnce
<1>4. ASSUME NEW gone, DeleteRows(gone), Event \/ UNCHANGED events PROVE BlamedOnce'
    <2>1. /\ \A s \in ScheduleIds : blame'[s] = blame[s] \/ blame'[s] = 0
          /\ deaths \subseteq deaths'
        BY <1>4 DEF DeleteRows
    <2>2. events' \in Int /\ events <= events'
        BY <1>0, <1>4, EventTyped DEF Typed
    <2> QED BY <1>1, <2>1, <2>2
<1>5. CASE UNCHANGED <<blame, deaths>> /\ (Event \/ UNCHANGED events)
    <2>1. events' \in Int /\ events <= events'
        BY <1>0, <1>5, EventTyped DEF Typed
    <2> QED BY <1>1, <1>5, <2>1
<1>6. CASE UNCHANGED vars
    BY <1>5, <1>6 DEF vars, batchVars
<1>7. ASSUME NEW r \in Requests,
             Arrives(r) \/ ListByUser(r) \/ Create(r) \/ CreateRefused(r) \/ Update(r) \/ UpdateAnswerLost(r)
                 \/ UpdateRefused(r) \/ CallFails(r)
      PROVE  BlamedOnce'
    <2>1. UNCHANGED <<blame, deaths>> /\ (Event \/ UNCHANGED events)
        BY <1>7 DEF Arrives, createSchedules, requireSchedule, ListByUser, Create, CreateRefused,
                    Update,
                    UpdateAnswerLost, Rewrite, UpdateRefused, CallFails, batchVars
    <2> QED BY <1>5, <2>1
<1>8. ASSUME NEW r \in Requests, CreateAnswerLost(r) PROVE BlamedOnce'
    <2>1. /\ events' = events + 1 /\ deaths' = deaths
          /\ \E n : blame' = [blame EXCEPT ![n] = events']
        BY <1>8, EventTyped DEF CreateAnswerLost, Typed
    <2> QED BY <1>2, <2>1
<1>9. ASSUME NEW r \in Requests, RollBack(r) PROVE BlamedOnce'
    <2>1. \/ \E gone : DeleteRows(gone) /\ UNCHANGED events
          \/ \E n : Event /\ Leave(n) /\ UNCHANGED deaths
        BY <1>9 DEF RollBack
    <2>2. ASSUME NEW n, Event, Leave(n), UNCHANGED deaths PROVE BlamedOnce'
        BY <1>2, <2>2, EventTyped DEF Leave, Typed
    <2> QED BY <1>4, <2>1, <2>2
<1>10. CASE \/ \E s \in ScheduleIds : Run(s) \/ Enqueue(s) \/ CreateRun(s) \/ CreateRunRefused(s)
            \/ \E picked \in SUBSET ScheduleIds : ListEnabled(picked)
            \/ \E succeeded \in BOOLEAN : EndRun(succeeded)
            \/ NextDay
    <2>1. UNCHANGED <<blame, deaths>> /\ UNCHANGED events
        BY <1>10 DEF Run, Enqueue, CreateRun, Collect, CreateRunRefused, ListEnabled, EndRun,
                     NextDay, batchVars
    <2> QED BY <1>5, <2>1
<1>11. CASE (\E s \in ScheduleIds : Delete(s)) \/ (\E g \in Groups : DeleteGroup(g))
    BY <1>4, <1>11 DEF Delete, DeleteGroup
<1> QED BY <1>3, <1>6, <1>7, <1>8, <1>9, <1>10, <1>11 DEF Next, BatchStep

\* Whatever a batch that did not succeed leaves has its own fault to blame, a deletion that
\* failed or an insertion whose answer was lost, or the death of its request: no other
\* step keeps a schedule, and none lets one that is gone come back
\* (createSchedulesFromButtons).
THEOREM FailedBatchesLeaveFaults == Spec => []BatchIsWhole
<1>1. Init => WholeInv /\ BlamedOnce
    BY DEF Init, WholeInv, Accounted, Numbered, BlamedOnce, NoLocals
<1>2. Spec => [](Typed /\ WholeInv /\ BlamedOnce)
    BY <1>1, InitTyped, NextTyped, WholeStep, BlameStep, PTL DEF Spec
<1>3. Typed /\ WholeInv /\ BlamedOnce => BatchIsWhole
    <2> SUFFICES ASSUME WholeInv, BlamedOnce, NEW s \in ScheduleIds, Leftover(s)
                 PROVE  /\ blame[s] # 0
                        /\ \A u \in ScheduleIds : Leftover(u) /\ blame[u] = blame[s] =>
                               u = s \/ blame[s] \in deaths
        BY DEF BatchIsWhole
    <2>1. blame[s] # 0
        BY DEF Leftover, WholeInv, Accounted
    <2> QED BY <2>1 DEF BlamedOnce
<1> QED BY <1>2, <1>3, PTL

-----------------------------------------------------------------------------
\* Slots, a group and a time.

\* One row has a text in a group, but for those that came from a race or a change.
OneRowPerTime == \A s, u \in ScheduleIds :
    s # u /\ Exists(s) /\ group[s] = group[u] /\ time[s] = time[u] => {s, u} \cap unseen # {}

SlotOf(r, s) == group[s] = local[r].copy.group /\ time[s] = Head(local[r].todo)

\* A request that is about to insert knows of every schedule in its slot but those that
\* came from a race or a change, requests about to insert in one slot know of each other,
\* and a change of other settings writes the slot the schedule has.
NoneUnseen(r) == pc[r] = "insert" =>
    \A s \in ScheduleIds : Exists(s) /\ SlotOf(r, s) => s \in unseen

RivalsMet == \A q, r \in Requests :
    q # r /\ pc[q] = "insert" /\ pc[r] = "insert" /\ SameSlot(q, r) => {q, r} \subseteq met

SlotCopied(r) == pc[r] = "update" /\ local[r].given \subseteq {"enabled"} =>
    \A s \in ScheduleIds : s = local[r].id /\ Exists(s) /\ s \notin unseen =>
        local[r].copy.group = group[s] /\ local[r].copy.time = time[s]

SlotInv == /\ OneRowPerTime /\ RivalsMet
           /\ \A r \in Requests : NoneUnseen(r) /\ SlotCopied(r)

\* A step that moves no schedule without saying so, and starts no insertion.
InPlace(s) == /\ s \in unseen => s \in unseen'
              /\ s \in unseen' \/ (Exists(s) /\ group'[s] = group[s] /\ time'[s] = time[s])

InsertersStay == \A q \in Requests :
    pc'[q] = "insert" => pc[q] = "insert" /\ local'[q] = local[q] /\ (q \in met => q \in met')

LEMMA SlotsStay ==
    ASSUME SlotInv, NoneStarted, InsertersStay,
           \A s \in ScheduleIds : Exists(s)' => InPlace(s)
    PROVE  SlotInv'
<1>1. OneRowPerTime'
    <2> SUFFICES ASSUME NEW s \in ScheduleIds, NEW u \in ScheduleIds, s # u,
                        Exists(s)', group'[s] = group'[u], time'[s] = time'[u]
                 PROVE  {s, u} \cap unseen' # {}
        BY DEF OneRowPerTime
    <2>1. Exists(u)'
        BY DEF Exists
    <2>2. InPlace(s) /\ InPlace(u)
        BY <2>1
    <2>3. CASE s \notin unseen' /\ u \notin unseen'
        <3>1. Exists(s) /\ group[s] = group[u] /\ time[s] = time[u]
            BY <2>2, <2>3 DEF InPlace
        <3>2. {s, u} \cap unseen # {}
            BY <3>1 DEF SlotInv, OneRowPerTime
        <3> QED BY <2>2, <2>3, <3>2 DEF InPlace
    <2> QED BY <2>3
<1>2. RivalsMet'
    BY DEF SlotInv, RivalsMet, InsertersStay, SameSlot
<1>3. ASSUME NEW r \in Requests PROVE NoneUnseen(r)'
    BY DEF SlotInv, NoneUnseen, InsertersStay, SlotOf, InPlace
<1>4. ASSUME NEW r \in Requests PROVE SlotCopied(r)'
    BY DEF SlotInv, SlotCopied, NoneStarted, InPlace
<1> QED BY <1>1, <1>2, <1>3, <1>4 DEF SlotInv

\* An insertion: what is there already came from a race or a change, and so does the new
\* schedule for those about to insert in its slot.
LEMMA SlotInserted ==
    ASSUME Typed, EditsInv, SlotInv, NEW r \in Requests, pc[r] = "insert",
    local[r].copy.group \in groups,
           Insert(local[r].copy.group, Head(local[r].todo)), UNCHANGED groups,
           unseen' = IF r \in met THEN unseen \cup {count'} ELSE unseen, met' = met \ {r},
           pc'[r] \notin {"insert", "update"},
           \A q \in Requests \ {r} : pc'[q] = pc[q] /\ local'[q] = local[q]
    PROVE  SlotInv'
<1> DEFINE g == local[r].copy.group
           t == Head(local[r].todo)
<1>1. g \in Groups /\ t \in Times
    <2>1. local[r] \in Locals /\ Ready(r)
        BY DEF Typed, RequestsTyped, RequestType
    <2> QED BY <2>1, HeadTailProperties DEF Ready, Locals
<1>2. PICK n : /\ n = count' /\ n \in ScheduleIds /\ ~Exists(n) /\ group'[n] = g /\ time'[n] = t
               /\ \A s \in ScheduleIds \ {n} : group'[s] = group[s] /\ time'[s] = time[s]
               /\ n = count + 1 /\ count \in Int
    BY <1>1, InsertTyped DEF Typed, RowsTyped, RowType
<1>3. unseen \subseteq unseen' /\ unseen' \subseteq unseen \cup {n} /\ (r \in met => n \in unseen')
    BY <1>2
<1>4. ASSUME NEW s \in ScheduleIds, s # n, Exists(s)', group'[s] = g, time'[s] = t
      PROVE  s \in unseen'
    BY <1>2, <1>3, <1>4 DEF SlotInv, NoneUnseen, SlotOf, Exists
<1>5. OneRowPerTime'
    <2> SUFFICES ASSUME NEW s \in ScheduleIds, NEW u \in ScheduleIds, s # u,
                        Exists(s)', group'[s] = group'[u], time'[s] = time'[u]
                 PROVE  {s, u} \cap unseen' # {}
        BY DEF OneRowPerTime
    <2>1. Exists(u)'
        BY DEF Exists
    <2>2. CASE s = n
        BY <1>2, <1>4, <2>1, <2>2
    <2>3. CASE u = n
        BY <1>2, <1>4, <2>3
    <2>4. CASE s # n /\ u # n
        <3>1. Exists(s) /\ group[s] = group[u] /\ time[s] = time[u]
            BY <1>2, <2>4 DEF Exists
        <3> QED BY <1>3, <3>1 DEF SlotInv, OneRowPerTime
    <2> QED BY <2>2, <2>3, <2>4
<1>6. RivalsMet'
    BY DEF SlotInv, RivalsMet, SameSlot
<1>7. ASSUME NEW q \in Requests PROVE NoneUnseen(q)'
    <2> SUFFICES ASSUME pc'[q] = "insert", NEW s \in ScheduleIds, Exists(s)', SlotOf(q, s)'
                 PROVE  s \in unseen'
        BY DEF NoneUnseen
    <2>1. q # r /\ pc[q] = "insert" /\ local'[q] = local[q]
        OBVIOUS
    <2>2. CASE s = n
        <3>1. SameSlot(q, r)
            BY <1>2, <2>1, <2>2 DEF SlotOf, SameSlot
        <3> QED BY <1>3, <2>1, <2>2, <3>1 DEF SlotInv, RivalsMet
    <2>3. CASE s # n
        BY <1>2, <1>3, <2>1, <2>3 DEF SlotInv, NoneUnseen, SlotOf, Exists
    <2> QED BY <2>2, <2>3
<1>8. ASSUME NEW q \in Requests PROVE SlotCopied(q)'
    <2> SUFFICES ASSUME pc'[q] = "update", local'[q].given \subseteq {"enabled"},
                        NEW s \in ScheduleIds, s = local'[q].id, Exists(s)', s \notin unseen'
                 PROVE  local'[q].copy.group = group'[s] /\ local'[q].copy.time = time'[s]
        BY DEF SlotCopied
    <2>1. pc[q] = "update" /\ local'[q] = local[q]
        OBVIOUS
    <2>2. s # n
        <3>1. IdKnown(q)
            BY DEF EditsInv
        <3> QED BY <1>2, <2>1, <3>1 DEF IdKnown
    <2>3. Exists(s) /\ s \notin unseen /\ group'[s] = group[s] /\ time'[s] = time[s]
        BY <1>2, <1>3, <2>2 DEF Exists
    <2>4. SlotCopied(q) /\ local[q].given \subseteq {"enabled"} /\ s = local[q].id
        BY <2>1 DEF SlotInv
    <2> QED BY <2>1, <2>3, <2>4 DEF SlotCopied
<1> QED BY <1>5, <1>6, <1>7, <1>8 DEF SlotInv

LEMMA RowsInPlace ==
    ASSUME \/ UNCHANGED <<group, time, unseen>>
           \/ \E gone : DeleteRows(gone)
    PROVE  \A s \in ScheduleIds : Exists(s)' => InPlace(s)
<1>1. CASE UNCHANGED <<group, time, unseen>>
    BY <1>1 DEF InPlace, Exists
<1>2. ASSUME NEW gone, DeleteRows(gone), NEW s \in ScheduleIds, Exists(s)' PROVE InPlace(s)
    BY <1>2 DEF DeleteRows, InPlace, Exists
<1> QED BY <1>1, <1>2

LEMMA GoesPast ==
    ASSUME RequestsTyped, NEW r \in Requests, NEW l, NEW x, Goes(r, l, x), l # "insert",
           met \ {r} \subseteq met'
    PROVE  InsertersStay /\ pc'[r] = l /\ \A q \in Requests \ {r} : pc'[q] = pc[q] /\ local'[q] = local[q]
BY DEF Goes, InsertersStay, RequestsTyped, RequestType

LEMMA FailsPast ==
    ASSUME RequestsTyped, NEW r \in Requests, NEW unknown, Failing(r, unknown),
    met \ {r} \subseteq met'
    PROVE  /\ InsertersStay /\ pc'[r] \in {"idle", "undo"}
           /\ \A q \in Requests \ {r} : pc'[q] = pc[q] /\ local'[q] = local[q]
BY GoesPast DEF Failing, Ends

LEMMA SlotSearched ==
    ASSUME Typed, SlotInv, NEW r \in Requests, ListByUser(r)
    PROVE  SlotInv'
<1> DEFINE g == local[r].copy.group
           t == Head(local[r].todo)
<1>1. UNCHANGED <<group, time, unseen>> /\ pc[r] = "list"
    BY DEF ListByUser, rowVars, editVars
<1>2. CASE Taken(g, t)
    <2>1. Failing(r, {}) /\ met' = met /\ stale' = stale
        BY <1>2 DEF ListByUser, editVars
    <2>2. InsertersStay /\ NoneStarted
        BY <2>1, FailsPast, FailsElsewhere DEF Typed
    <2> QED BY <1>1, <2>2, RowsInPlace, SlotsStay
<1>3. CASE ~Taken(g, t)
    <2>1. /\ Goes(r, "insert", local[r])
          /\ met' = IF Inserting(r) = {} THEN met ELSE met \cup Inserting(r) \cup {r}
        BY <1>3 DEF ListByUser
    <2>2. /\ pc'[r] = "insert" /\ local' = local
          /\ \A q \in Requests \ {r} : pc'[q] = pc[q]
        BY <2>1 DEF Goes, Typed, RequestsTyped, RequestType
    <2>3. OneRowPerTime'
        BY <1>1 DEF SlotInv, OneRowPerTime, Exists
    <2>4. ASSUME NEW p \in Requests, NEW q \in Requests, p # q, pc'[p] = "insert",
    pc'[q] = "insert",
                 SameSlot(p, q)'
          PROVE  {p, q} \subseteq met'
        <3>0. SameSlot(p, q)
            BY <2>2, <2>4 DEF SameSlot
        <3>1. CASE p = r
            BY <2>1, <2>2, <2>4, <3>0, <3>1 DEF Inserting, SameSlot
        <3>2. CASE q = r
            BY <2>1, <2>2, <2>4, <3>0, <3>2 DEF Inserting, SameSlot
        <3>3. CASE p # r /\ q # r
            BY <2>1, <2>2, <2>4, <3>0, <3>3 DEF SlotInv, RivalsMet
        <3> QED BY <3>1, <3>2, <3>3
    <2>5. ASSUME NEW q \in Requests PROVE NoneUnseen(q)'
        <3>1. CASE q = r
            BY <1>1, <1>3, <2>2, <3>1 DEF NoneUnseen, SlotOf, Taken
        <3>2. CASE q # r
            BY <1>1, <2>2, <3>2 DEF SlotInv, NoneUnseen, SlotOf, Exists
        <3> QED BY <3>1, <3>2
    <2>6. ASSUME NEW q \in Requests PROVE SlotCopied(q)'
        BY <1>1, <2>2 DEF SlotInv, SlotCopied, Exists
    <2> QED BY <2>3, <2>4, <2>5, <2>6 DEF SlotInv, RivalsMet
<1> QED BY <1>2, <1>3

LEMMA SlotIsCopied ==
    ASSUME Typed, SlotInv, NEW r \in Requests, NEW s \in ScheduleIds, NEW f, NEW c,
           requireSchedule(r, s, f, c)
    PROVE  SlotInv'
<1> DEFINE x == [NoLocals EXCEPT !.id = s, !.given = f, !.copy = Given(Row(s), f, c)]
<1>1. UNCHANGED <<group, time, unseen, met, stale>> /\ Goes(r, "update", x)
    BY DEF requireSchedule, rowVars, editVars, batchVars
<1>2. /\ x.id = s /\ x.given = f
      /\ f \subseteq {"enabled"} => x.copy.group = group[s] /\ x.copy.time = time[s]
    BY DEF NoLocals, Given, Row
<1> HIDE DEF x
<1>3. /\ pc'[r] = "update" /\ local'[r] = x
      /\ \A q \in Requests \ {r} : pc'[q] = pc[q] /\ local'[q] = local[q]
    BY <1>1 DEF Goes, Typed, RequestsTyped, RequestType
<1>4. OneRowPerTime' /\ RivalsMet'
    BY <1>1, <1>3 DEF SlotInv, OneRowPerTime, Exists, RivalsMet, SameSlot
<1>5. ASSUME NEW q \in Requests PROVE NoneUnseen(q)'
    BY <1>1, <1>3 DEF SlotInv, NoneUnseen, SlotOf, Exists
<1>6. ASSUME NEW q \in Requests PROVE SlotCopied(q)'
    <2>1. CASE q = r
        BY <1>1, <1>2, <1>3, <2>1 DEF SlotCopied
    <2>2. CASE q # r
        BY <1>1, <1>3, <2>2 DEF SlotInv, SlotCopied, Exists
    <2> QED BY <2>1, <2>2
<1> QED BY <1>4, <1>5, <1>6 DEF SlotInv

LEMMA SlotStored ==
    ASSUME Typed, SlotInv, NEW r \in Requests, Rewrite(r), NEW x, x = local[r], NEW u, u = x.id
    PROVE  SlotInv'
<1>1. /\ pc[r] = "update" /\ Exists(u) /\ Store(u, x.copy) /\ met' = met /\ Ends(r)
      /\ unseen' = IF x.given \subseteq {"enabled"} THEN unseen ELSE unseen \cup {u}
      /\ stale \ {r} \subseteq stale'
    BY DEF Rewrite
<1>2. ASSUME NEW s \in ScheduleIds, Exists(s)' PROVE InPlace(s)
    <2>0. /\ group' = [group EXCEPT ![u] = x.copy.group] /\ time' = [time EXCEPT ![u] = x.copy.time]
          /\ group \in [ScheduleIds -> Groups \cup {NoGroup}] /\ time \in [ScheduleIds -> Times \cup {NoTime}]
        BY <1>1 DEF Store, Typed, RowsTyped, RowType
    <2>1. CASE s # u
        BY <1>1, <1>2, <2>0, <2>1 DEF InPlace, Exists
    <2>2. CASE s = u /\ u \in unseen'
        BY <1>1, <2>2 DEF InPlace
    <2>3. CASE s = u /\ u \notin unseen'
        <3>1. x.given \subseteq {"enabled"} /\ u \notin unseen
            BY <1>1, <2>3
        <3>2. x.copy.group = group[u] /\ x.copy.time = time[u]
            BY <1>1, <2>3, <3>1 DEF SlotInv, SlotCopied
        <3> QED BY <1>1, <2>0, <2>3, <3>1, <3>2 DEF InPlace
    <2> QED BY <2>1, <2>2, <2>3
<1>3. InsertersStay /\ NoneStarted
    BY <1>1, GoesPast, GoesElsewhere DEF Ends, Typed
<1> QED BY <1>2, <1>3, SlotsStay

LEMMA RequestsSlots ==
    ASSUME Typed, EditsInv, SlotInv, NEW r \in Requests,
           Arrives(r) \/ BatchStep(r) \/ Update(r) \/ UpdateAnswerLost(r) \/ UpdateRefused(r)
               \/ CallFails(r) \/ CreateAnswerLost(r) \/ Crash(r)
    PROVE  SlotInv'
<1>0. RequestsTyped
    BY DEF Typed
<1>1. ASSUME NEW g, NEW b, createSchedules(r, g, b) PROVE SlotInv'
    BY <1>0, <1>1, GoesPast, GoesElsewhere, RowsInPlace, SlotsStay DEF createSchedules, rowVars,
                                                                       editVars, batchVars
<1>2. CASE Create(r)
    <2>1. InsertersStay /\ pc'[r] \in {"idle", "list"}
          /\ \A q \in Requests \ {r} : pc'[q] = pc[q] /\ local'[q] = local[q]
        BY <1>0, <1>2, GoesPast DEF Create, Ends
    <2>2. unseen' = IF r \in met THEN unseen \cup {count'} ELSE unseen
        BY <1>2 DEF Create, Insert
    <2> QED BY <1>2, <2>1, <2>2, SlotInserted DEF Create
<1>3. CASE CreateAnswerLost(r)
    <2>1. InsertersStay /\ pc'[r] \in {"idle", "undo"}
          /\ \A q \in Requests \ {r} : pc'[q] = pc[q] /\ local'[q] = local[q]
        BY <1>0, <1>3, FailsPast DEF CreateAnswerLost
    <2> QED BY <1>3, <2>1, SlotInserted DEF CreateAnswerLost
<1>4. CASE CreateRefused(r) \/ CallFails(r)
    BY <1>0, <1>4, FailsPast, FailsElsewhere, RowsInPlace, SlotsStay
       DEF CreateRefused, CallFails, rowVars, editVars
<1>5. CASE UpdateRefused(r) \/ Crash(r)
    BY <1>0, <1>5, GoesPast, GoesElsewhere, RowsInPlace, SlotsStay
       DEF UpdateRefused, Crash, Ends, rowVars, editVars, batchVars
<1>6. CASE RollBack(r)
    <2>1. InsertersStay /\ NoneStarted
        BY <1>0, <1>6, GoesPast, GoesElsewhere DEF RollBack, Ends, DeleteRows, editVars
    <2>2. \A s \in ScheduleIds : Exists(s)' => InPlace(s)
        BY <1>6, RowsInPlace DEF RollBack, rowVars, editVars
    <2> QED BY <2>1, <2>2, SlotsStay
<1> QED BY <1>1, <1>2, <1>3, <1>4, <1>5, <1>6, SlotSearched, SlotIsCopied, SlotStored
       DEF Arrives, BatchStep, Update, UpdateAnswerLost

LEMMA SlotStep == Typed /\ EditsInv /\ SlotInv /\ [Next]_vars => SlotInv'
<1> SUFFICES ASSUME Typed, EditsInv, SlotInv, [Next]_vars PROVE SlotInv'
    OBVIOUS
<1>1. CASE \E r \in Requests : \/ Arrives(r) \/ BatchStep(r) \/ Update(r) \/ UpdateAnswerLost(r)
                               \/ UpdateRefused(r) \/ CallFails(r) \/ CreateAnswerLost(r) \/ Crash(r)
    BY <1>1, RequestsSlots
<1>2. CASE \/ \E s \in ScheduleIds : \/ Delete(s) \/ Run(s) \/ Enqueue(s)
                                     \/ CreateRun(s) \/ CreateRunRefused(s)
           \/ \E g \in Groups : DeleteGroup(g)
           \/ \E picked \in SUBSET ScheduleIds : ListEnabled(picked)
           \/ \E succeeded \in BOOLEAN : EndRun(succeeded)
           \/ NextDay
           \/ UNCHANGED vars
    <2>1. UNCHANGED <<pc, local, met, stale>>
        BY <1>2 DEF Delete, Run, Enqueue, CreateRun, Collect, CreateRunRefused, DeleteGroup,
                    ListEnabled,
                    EndRun, NextDay, DeleteRows, editVars, batchVars, vars
    <2>2. UNCHANGED <<group, time, unseen>> \/ \E gone : DeleteRows(gone)
        BY <1>2 DEF Delete, Run, Enqueue, CreateRun, Collect, CreateRunRefused, DeleteGroup,
                    ListEnabled,
                    EndRun, NextDay, rowVars, editVars, batchVars, vars
    <2> QED BY <2>1, <2>2, RowsInPlace, SlotsStay DEF InsertersStay, NoneStarted
<1> QED BY <1>1, <1>2 DEF Next

\* Two schedules of a group at one time of day come only from requests that looked at the
\* same moment, from a change, or from two spellings of the time, of which each is taken
\* once: a request that looks alone, or after the other inserted, is refused, also when
\* batches fail, schedules are deleted and answers lost in between (Service.Create).
THEOREM SlotsAreTakenOnce == Spec => []OneSchedulePerSlot
<1>1. Init => SlotInv
    BY DEF Init, SlotInv, OneRowPerTime, RivalsMet, NoneUnseen, SlotCopied, Exists
<1>2. Spec => []SlotInv
    BY <1>1, EditsAlways, SlotStep, PTL DEF Spec
<1>3. SlotInv => OneSchedulePerSlot
    BY DEF SlotInv, OneRowPerTime, OneSchedulePerSlot
<1> QED BY <1>2, <1>3, PTL
=============================================================================
