--------------------------------- MODULE Bot ---------------------------------
(***************************************************************************)
(* The bot process (internal/telegram/bot/service.go, api_client.go): one  *)
(* loop takes the owner's updates in turn and answers them, while          *)
(* conversions to articles and summaries asked for by a button run beside  *)
(* it, each to write its result over the message the button was on.        *)
(*                                                                         *)
(* Of the chat some messages are in sight, any of them; those further up   *)
(* may have any button a screen ever shows.  An update that is delivered   *)
(* twice or lost around a restart is one update more or less.              *)
(***************************************************************************)
EXTENDS BotRouter

CONSTANTS
    MaxMessages,    \* a bound: the messages in sight
    MaxTasks        \* a bound: the conversions and generations at a time

ASSUME BotAssumption == MaxMessages \in Nat \ {0} /\ MaxTasks \in Nat \ {0}

Messages == 1..MaxMessages
OutOfSight == 0
Tasks    == 1..MaxTasks

VARIABLES
    dialog,     \* the memory state store's view of the owner
    groups,     \* the source groups there are
    chat,       \* the screen of each message
    tasks,      \* the goroutines: the message and the button of each
    job,        \* the summary job the loop itself waits for
    asked,      \* what the bot set out to ask and has no answer to
    beside,     \* what it asked for since beside a dialog that takes texts
    orphaned    \* messages left in progress by a failed call or a crash

vars == <<dialog, groups, chat, tasks, job, asked, beside, orphaned>>

Idle == [message |-> OutOfSight, button |-> <<"none", NoGroup>>]

Init ==
    /\ dialog = NoDialog
    /\ groups \in SUBSET Groups
    /\ chat = [m \in Messages |-> NoScreen]
    /\ tasks = [t \in Tasks |-> Idle]
    /\ job = "none"
    /\ asked = NoText
    /\ beside = NoText
    /\ orphaned = {}

-----------------------------------------------------------------------------
\* Every button some screen shows: messages out of sight may still have it.
Offered ==
    MainMenu \cup SettingsMenu \cup chatsMenu \cup collectionResultMenu
        \cup summaryResultMenu \cup summaryMenu \cup topicMenu \cup articlesMenu \cup articleMenu
        \cup scheduleListMenu \cup scheduleItemMenu
        \cup groupsMenu(Groups) \cup newSummaryGroupsMenu(Groups) \cup scheduleGroupsMenu(Groups)
        \cup (UNION {groupDetailsMenu(g) \cup newSummaryModeMenu(g) \cup scheduleCountMenu(g) \cup scheduleTimeMenu(g) :
                         g \in Groups})

Writers(m) == {t \in Tasks : tasks[t].message = m}

\* What stays in progress when the result cannot be written over it.
Left(m) == {n \in Messages \cap {m} : chat[n].busy}

\* The message n goes out of sight; a task that is to write to it does so there.
Beyond(ts, n) == [t \in Tasks |-> IF ts[t].message = n THEN [ts[t] EXCEPT !.message = OutOfSight] ELSE ts[t]]

\* A call that fails shows no more than a message out of sight.  ts are the tasks from now on.
SendNew(screen, ts, lost) ==
    \/ /\ tasks'    = ts
       /\ orphaned' = orphaned \cup lost
       /\ UNCHANGED chat
    \/ \E n \in Messages :
            /\ chat'     = [chat EXCEPT ![n] = screen]
            /\ tasks'    = Beyond(ts, n)
            /\ orphaned' = (orphaned \cup lost) \ {n}

\* An edit that fails is sent as a new message.
Edit(screen, m, ts) ==
    /\ m \in Messages
    /\ chat'     = [chat EXCEPT ![m] = screen]
    /\ tasks'    = ts
    /\ orphaned' = orphaned \ {m}

Send(x, m, ts, lost) ==
    \/ x.edit /\ Edit(Screen(x.menu), m, ts)
    \/ SendNew(Screen(x.menu), ts, IF x.edit THEN lost ELSE {})

\* The dialogs that give a text to the login or to a group.
TakesText(d) == d.view \in {"auth_phone", "auth_password", "add_public_channel"}

\* What an answer changes beside the chat.
Takes(x) ==
    /\ dialog' = x.dialog
    /\ groups' = (groups \ x.toggled) \cup (x.toggled \ groups)
    /\ asked'  = IF x.asks = Same THEN asked ELSE x.asks
    /\ beside' = CASE ~TakesText(x.dialog) \/ x.asks # Same \/ x.beside = asked -> NoText
                   [] TakesText(x.dialog) /\ x.asks = Same /\ x.beside # asked   ->
                          IF x.beside = NoText THEN beside ELSE x.beside

-----------------------------------------------------------------------------
\* The loop.

Free == job = "none"

\* Each of the answers some command, or some button of the message, can get.
CommandAnswers == UNION {UNION {handleMessage(dialog, groups, c, g) : g \in Groups} : c \in Commands}

Command ==
    /\ Free
    /\ \E x \in CommandAnswers : Takes(x) /\ Send(x, OutOfSight, tasks, {})
    /\ UNCHANGED job

Text ==
    /\ Free
    /\ \E x \in handleMessage(dialog, groups, "", NoGroup) : Takes(x) /\ Send(x, OutOfSight, tasks, {})
    /\ UNCHANGED job

isAsync(b) == b[1] \in {"art:summary", "art:topic", "newsum:generate"}

\* A message's buttons, and once more the one whose task is under way.
Tappable(m) == IF m = OutOfSight THEN Offered ELSE chat[m].menu \cup {tasks[t].button : t \in Writers(m)}

ButtonAnswers(m) == UNION {handleCallback(dialog, groups, b) : b \in {c \in Tappable(m) : ~isAsync(c)}}

Tap(m) ==
    /\ Free
    /\ \E x \in ButtonAnswers(m) : Takes(x) /\ Send(x, m, tasks, {})
    /\ UNCHANGED job

progressMenu(b) == IF b[1] = "newsum:generate" THEN summaryProgressMenu ELSE articleProgressMenu

\* The progress is shown first, and no task starts if it cannot.  Sent as a new message it
\* stays there: the task writes to m.
SendProgress(screen, m, ts) ==
    \/ Edit(screen, m, ts)
    \/ tasks' = ts /\ UNCHANGED <<chat, orphaned>>
    \/ \E n \in Messages :
            /\ chat'     = [chat EXCEPT ![n] = screen]
            /\ tasks'    = Beyond(ts, n)
            /\ orphaned' = orphaned \cup {n}
    \/ UNCHANGED <<chat, tasks, orphaned>>

TapAsync(m, b) ==
    /\ Free /\ isAsync(b)
    /\ \E t \in Tasks :
            /\ tasks[t] = Idle /\ \A u \in 1..(t - 1) : tasks[u] # Idle
            /\ SendProgress(Progress(progressMenu(b)), m, [tasks EXCEPT ![t] = [message |-> m, button |-> b]])
    /\ UNCHANGED <<dialog, groups, job, asked, beside>>

\* A variant whose result is a message of its own.
ResultAsNew(x) == [x EXCEPT !.edit = FALSE]

\* A result is written over the message of its button.
Result(x) == [x EXCEPT !.edit = TRUE]

\* A variant without a deadline: a model that never answers keeps the conversion.
TaskEndsAnswered(t) ==
    /\ tasks[t] # Idle /\ tasks[t].button[1] # "art:topic"
    /\ \E x \in handleCallback(dialog, groups, tasks[t].button) :
            Takes(x) /\ Send(Result(x), tasks[t].message, [tasks EXCEPT ![t] = Idle], Left(tasks[t].message))
    /\ UNCHANGED job

\* Every call of the task ends by its deadline.
TaskEnds(t) ==
    /\ tasks[t] # Idle
    /\ \E x \in handleCallback(dialog, groups, tasks[t].button) :
            Takes(x) /\ Send(Result(x), tasks[t].message, [tasks EXCEPT ![t] = Idle], Left(tasks[t].message))
    /\ UNCHANGED job

-----------------------------------------------------------------------------
\* A summary asked for by a command is waited for by the loop, without a deadline.

\* A variant that only knows the good end.
SettledWell == {"completed"}

Settled == {"completed", "failed", "dead", "cancelled"}

StartGeneration ==
    /\ Free
    /\ job' = "queued"
    /\ UNCHANGED <<dialog, groups, chat, tasks, asked, beside, orphaned>>

\* summary-worker is done with the job.
WorkerEnds ==
    /\ job = "queued"
    /\ job' \in {"completed", "dead"}
    /\ UNCHANGED <<dialog, groups, chat, tasks, asked, beside, orphaned>>

Answers == job' = "none" /\ \E x \in New(summarizeCollection(dialog)) : Takes(x) /\ Send(x, OutOfSight, tasks, {})

waitForSummaryJob == job \in Settled /\ Answers

PollFails == ~Free /\ Answers

-----------------------------------------------------------------------------
\* The dialog and the tasks are in memory; the chat is Telegram's.
Crash ==
    /\ dialog'   = NoDialog
    /\ tasks'    = [t \in Tasks |-> Idle]
    /\ job'      = "none"
    /\ orphaned' = {m \in Messages : chat[m].busy}
    /\ asked'    = NoText
    /\ beside'   = NoText
    /\ UNCHANGED <<groups, chat>>

Next ==
    \/ Command
    \/ Text
    \/ \E m \in Messages \cup {OutOfSight} : Tap(m) \/ \E b \in Tappable(m) : TapAsync(m, b)
    \/ \E t \in Tasks : TaskEnds(t)
    \/ StartGeneration
    \/ WorkerEnds
    \/ waitForSummaryJob
    \/ PollFails
    \/ Crash

\* Conversions have deadlines, the loop polls, and a worker that runs ends the job.  Each of
\* these steps changes its subscript.
Fairness ==
    /\ \A t \in Tasks : WF_tasks(TaskEnds(t))
    /\ WF_job(WorkerEnds)
    /\ WF_job(waitForSummaryJob)

Spec == Init /\ [][Next]_vars /\ Fairness
=============================================================================
