------------------------------ MODULE BotRouter ------------------------------
(***************************************************************************)
(* What the bot answers (internal/telegram/bot: router.go, state.go and    *)
(* the files of its sections).  A handler is the set of its answers: one   *)
(* for each way the calls it makes can end.                                *)
(*                                                                         *)
(* A button is its callback data and the group in it.  Other arguments,    *)
(* texts and lists are left out; a wrong argument is answered like a call  *)
(* that fails.  All controllers are configured (cmd/bot/main.go).          *)
(***************************************************************************)
EXTENDS Integers, Sequences, FiniteSets

CONSTANTS
    Groups,
    NoGroup

ASSUME BotRouterAssumption == NoGroup \notin Groups

Returns  == {"groups", "newsum", "schedule"}
Sections == {"start", "new_summary", "folders", "groups", "selected_sources", "history",
             "articles", "schedules", "settings"}
Views    == Sections \cup {"auth_phone", "auth_code", "auth_password"}

View(v) == [view |-> v, group |-> NoGroup, return |-> "groups"]
AddTo(g, ret) == [view |-> "add_public_channel", group |-> g, return |-> ret]

\* The store has nothing of the owner until a first screen.
NoDialog == View("none")
Dialogs  ==
    {View(v) : v \in Views \cup {"none"}} \cup (UNION {{AddTo(g, ret) : ret \in Returns} : g \in Groups})

\* What a text is taken for, and what a screen asks for.
NoText    == <<"nothing", NoGroup>>
Same      == <<"same", NoGroup>>
Questions == {NoText} \cup {<<q, NoGroup>> : q \in {"phone", "code", "password"}}
                      \cup {<<"channel", g>> : g \in Groups}

-----------------------------------------------------------------------------
\* The menus.

Button(data) == <<data, NoGroup>>

BackMenu == {Button("home")}

MainMenu == {Button(b) : b \in {"summary:new", "folders:list", "groups:list", "sources:selected",
                                "history:list", "articles:list", "schedules:list", "settings:open"}}

SettingsMenu == {Button(b) : b \in {"auth:connect", "auth:status", "auth:delete", "home"}}

chatsMenu == {Button("chats:page"), Button("home")}

groupsMenu(gs) == {<<"groups:open", g>> : g \in gs} \cup {Button("groups:sync"), Button("home")}

groupDetailsMenu(g) == {<<"newsum:group", g>>, <<"groups:addpublic", g>>, Button("groups:list"), Button("home")}

newSummaryGroupsMenu(gs) == {<<"newsum:group", g>> : g \in gs} \cup {Button("home")}

newSummaryModeMenu(g) == {<<"newsum:mode", g>>, <<"newsum:addpublic", g>>, Button("summary:new")}

collectionResultMenu == {Button("newsum:generate"), Button("summary:new"), Button("home")}

summaryResultMenu == {Button("sum:open"), Button("sum:list"), Button("home")}

summariesMenu == {Button("sum:open"), Button("home")}

summaryMenu == {Button("sum:topic"), Button("art:summary"), Button("exp:summary"), Button("sum:list"), Button("home")}

topicMenu == {Button("sum:topic"), Button("art:topic"), Button("sum:open"), Button("sum:list")}

articlesMenu == {Button("art:open"), Button("home")}

articleMenu == {Button("exp:article"), Button("art:list"), Button("home")}

scheduleListMenu == {Button("schedule:new"), Button("sched:open"), Button("sched:run"), Button("home")}

scheduleItemMenu == {Button("sched:run"), Button("sched:toggle"), Button("sched:delete"), Button("schedules:list"),
                     Button("home")}

scheduleGroupsMenu(gs) == {<<"sched:group", g>> : g \in gs} \cup {Button("schedules:list")}

scheduleCountMenu(g) == {<<"sched:count", g>>, <<"sched:addpublic", g>>, Button("schedule:new")}

scheduleTimeMenu(g) == {<<"sched:time", g>>, <<"sched:group", g>>}

publicChannelReturnCallback(g, ret) ==
    CASE ret = "newsum"   -> <<"newsum:group", g>>
      [] ret = "schedule" -> <<"sched:group", g>>
      [] ret = "groups"   -> <<"groups:open", g>>

publicChannelBackMenu(g, ret) == {publicChannelReturnCallback(g, ret)}

publicChannelSuccessMenu(g, ret) ==
    CASE ret = "newsum"   -> newSummaryModeMenu(g)
      [] ret = "schedule" -> scheduleCountMenu(g)
      [] ret = "groups"   -> groupDetailsMenu(g)

returnDialogView(ret) ==
    CASE ret = "newsum"   -> "new_summary"
      [] ret = "schedule" -> "schedules"
      [] ret = "groups"   -> "groups"

articleProgressMenu == {Button("art:list"), Button("home")}

summaryProgressMenu == {Button("sum:list"), Button("home")}

\* A screen is its menu and whether it says that work is under way.
Screen(menu)   == [menu |-> menu, busy |-> FALSE]
Progress(menu) == [menu |-> menu, busy |-> TRUE]
NoScreen       == Screen({})

-----------------------------------------------------------------------------
\* Answers: the dialog after them, the menu, whether the message of the button is edited
\* or a new one sent, what the dialog after it asks for, what the screen asks for beside the
\* dialog, what a text was taken for, and the groups that come or go.

Answer(d, menu) ==
    [dialog |-> d, menu |-> menu, edit |-> TRUE, asks |-> Same, beside |-> NoText, took |-> NoText, toggled |-> {}]

\* A section asks nothing.
Shows(v, menu) == {[Answer(View(v), menu) EXCEPT !.asks = NoText]}

\* The question once more, in the dialog that waits for the answer.
Again(d, menu, q) == {[Answer(d, menu) EXCEPT !.asks = q]}

\* A question whose text is left to the dialog the owner is in.
Beside(d, menu, q) == {[Answer(d, menu) EXCEPT !.beside = q]}

\* A call that fails leaves the dialog where it was.
Fails(d) == {Answer(d, BackMenu)}

Keeps(d, menu) == {Answer(d, menu)} \cup Fails(d)

New(answers) == {[x EXCEPT !.edit = FALSE] : x \in answers}

-----------------------------------------------------------------------------
\* Home, settings and the session.

showHome == Shows("start", MainMenu)

showSettings == Shows("settings", SettingsMenu)

AuthFails(d) == {Answer(d, SettingsMenu)}

\* The account waits for a number, a code or a password, or for nothing more.
showAuthPrompt(d) ==
    Shows("settings", SettingsMenu)
        \cup {[Answer(View(p[1]), BackMenu) EXCEPT !.asks = <<p[2], NoGroup>>] :
                  p \in {<<"auth_phone", "phone">>, <<"auth_code", "code">>, <<"auth_password", "password">>}}

Authorizes(d) == showAuthPrompt(d) \cup AuthFails(d)

startAuth(d) == Authorizes(d)

Phone    == <<"phone", NoGroup>>
Password == <<"password", NoGroup>>

\* The status may ask for the number or the password, but the dialog does not change.
showAuthStatus(d) == AuthFails(d) \cup Beside(d, SettingsMenu, Phone) \cup Beside(d, SettingsMenu, Password)

deleteSession(d) == Shows("settings", SettingsMenu) \cup AuthFails(d)

Took(answers, q) == {[x EXCEPT !.took = q] : x \in answers}

\* A number without a plus is not sent, and Telegram may refuse one.
submitPhone(d) == Took(Authorizes(d) \cup Again(d, SettingsMenu, Phone), Phone) \cup Again(d, BackMenu, Phone)

\* A code is refused: it goes to the API.
submitCode(d) == Fails(d)

submitPassword(d) == Took(Authorizes(d), Password) \cup Again(d, BackMenu, Password)

\* As commands, from any dialog.
phoneCommand(d) == Authorizes(d) \cup Beside(d, SettingsMenu, Phone) \cup Beside(d, BackMenu, Phone)

passwordCommand(d) == Authorizes(d) \cup Beside(d, BackMenu, Password)

-----------------------------------------------------------------------------
\* Chats and source groups.

\* Groups of folders not known before may come.
syncTelegram(d, gs) ==
    Fails(d) \cup {[Answer(View("folders"), BackMenu) EXCEPT !.asks = NoText, !.toggled = new] : new \in SUBSET (Groups \ gs)}

showFolders(d) == Shows("folders", BackMenu) \cup Fails(d)

showChatsPage(d) == Shows("selected_sources", chatsMenu) \cup Fails(d)

showGroups(d, gs) == Shows("groups", groupsMenu(gs)) \cup Fails(d)

createGroup(d, gs, g) ==
    Fails(d) \cup (IF g \in gs THEN {} ELSE {[Answer(d, BackMenu) EXCEPT !.toggled = {g}]})

renameGroup(d) == Fails(d)

deleteGroup(d, gs, g) ==
    IF g \in gs THEN {[Answer(d, BackMenu) EXCEPT !.toggled = {g}]} \cup Fails(d) ELSE Fails(d)

addGroupChat(d) == Fails(d)

removeGroupChat(d) == Fails(d)

showGroupChats(d, gs, g) == Fails(d) \cup (IF g \in gs THEN {Answer(d, groupDetailsMenu(g))} ELSE {})

-----------------------------------------------------------------------------
\* Public channels.

promptPublicChannel(g, ret) ==
    {[Answer(AddTo(g, ret), publicChannelBackMenu(g, ret)) EXCEPT !.asks = <<"channel", g>>]}

\* A variant that goes on taking texts for channels.
addPublicChannelAgain(d, gs, g, ret) ==
    {Answer(d, publicChannelBackMenu(g, ret))}
        \cup IF g \in gs THEN {[Answer(d, publicChannelSuccessMenu(g, ret)) EXCEPT !.asks = NoText]} ELSE {}

\* An error keeps the dialog, for another try.
addPublicChannel(d, gs, g, ret) ==
    {Answer(d, publicChannelBackMenu(g, ret))}
        \cup IF g \in gs
             THEN {[Answer(View(returnDialogView(ret)), publicChannelSuccessMenu(g, ret)) EXCEPT !.asks = NoText]}
             ELSE {}

\* An address that is none is asked for again, though a text is the dialog's.
addPublicChannelCommand(d, gs, g) ==
    addPublicChannel(d, gs, g, "groups") \cup Fails(d)
        \cup Beside(d, publicChannelBackMenu(g, "groups"), <<"channel", g>>)

addPublicChannelFromDialog(d, gs) ==
    Took(addPublicChannel(d, gs, d.group, d.return)
             \cup Again(d, publicChannelBackMenu(d.group, d.return), <<"channel", d.group>>),
         <<"channel", d.group>>)

handleGroupsCallback(d, gs, b) ==
    CASE b[1] = "groups:list"      -> showGroups(d, gs)
      [] b[1] = "groups:open"      -> showGroupChats(d, gs, b[2])
      [] b[1] = "groups:addpublic" -> promptPublicChannel(b[2], "groups")
      [] b[1] = "groups:sync"      -> syncTelegram(d, gs)

-----------------------------------------------------------------------------
\* Collecting, summaries, articles and exports.

collectGroup(d) == Fails(d)

summarizeCollection(d) == Fails(d)

showNewSummary(d, gs) == Fails(d) \cup
    IF gs = {} THEN Shows("new_summary", {Button("groups:list"), Button("home")})
    ELSE Shows("new_summary", newSummaryGroupsMenu(gs))

collectGroupFromButton(d) == Keeps(d, collectionResultMenu)

generateSummaryFromButton(d) == Keeps(d, summaryResultMenu)

handleNewSummaryCallback(d, b) ==
    CASE b[1] = "newsum:group"     -> {Answer(d, newSummaryModeMenu(b[2]))}
      [] b[1] = "newsum:addpublic" -> promptPublicChannel(b[2], "newsum")
      [] b[1] = "newsum:mode"      -> collectGroupFromButton(d)
      [] b[1] = "newsum:generate"  -> generateSummaryFromButton(d)

showSummaries(d) == Shows("history", summariesMenu) \cup Shows("history", BackMenu) \cup Fails(d)

renderSummary(d) == Keeps(d, summaryMenu)

renderTopic(d) == Keeps(d, topicMenu) \cup {Answer(d, summaryMenu)}

showSummary(d) == renderSummary(d)

showSummaryTopics(d) == renderTopic(d)

showTopic(d) == renderTopic(d)

handleSummaryCallback(d, b) ==
    CASE b[1] = "sum:list"  -> showSummaries(d)
      [] b[1] = "sum:open"  -> renderSummary(d)
      [] b[1] = "sum:topic" -> renderTopic(d)

showArticles(d) == Shows("articles", articlesMenu) \cup Shows("articles", BackMenu) \cup Fails(d)

renderArticle(d) == Keeps(d, articleMenu)

showArticle(d) == renderArticle(d)

renameArticle(d) == Keeps(d, articleMenu)

updateArticleTags(d) == Keeps(d, articleMenu)

convertArticleSummary(d) == Keeps(d, articleMenu)

convertArticleTopic(d) == Keeps(d, articleMenu)

createArticleFromSummary(d) == Fails(d) \cup convertArticleSummary(d)

createArticleFromTopic(d) == Fails(d) \cup convertArticleTopic(d)

handleArticleCallback(d, b) ==
    CASE b[1] = "art:list"    -> showArticles(d)
      [] b[1] = "art:open"    -> renderArticle(d)
      [] b[1] = "art:summary" -> convertArticleSummary(d)
      [] b[1] = "art:topic"   -> convertArticleTopic(d)

\* The document is a message of its own.
exportOutgoing(d) == New(Fails(d))

exportArticle(d) == Fails(d) \cup exportOutgoing(d)

exportSummary(d) == Fails(d) \cup exportOutgoing(d)

handleExportCallback(d) == exportOutgoing(d)

-----------------------------------------------------------------------------
\* Schedules; of the times chosen for a batch the buttons only carry the list on.

showSchedules(d) == Shows("schedules", scheduleListMenu) \cup Fails(d)

createSchedule(d) == Keeps(d, scheduleItemMenu)

showSchedule(d) == Keeps(d, scheduleItemMenu)

setScheduleEnabled(d) == New(Keeps(d, scheduleItemMenu))

deleteSchedule(d) == New(Fails(d))

runSchedule(d) == New(Fails(d))

showScheduleGroupPicker(d, gs) == Fails(d) \cup
    IF gs = {} THEN {Answer(d, {Button("groups:list"), Button("schedules:list")})}
    ELSE {Answer(d, scheduleGroupsMenu(gs))}

createSchedulesFromButtons(d) == Keeps(d, scheduleItemMenu) \cup {Answer(d, scheduleListMenu)}

handleScheduleCallback(d, b) ==
    CASE b[1] = "sched:group"     -> {Answer(d, scheduleCountMenu(b[2]))}
      [] b[1] = "sched:addpublic" -> promptPublicChannel(b[2], "schedule")
      [] b[1] = "sched:count"     -> {Answer(d, scheduleTimeMenu(b[2]))}
      [] b[1] = "sched:time"      -> {Answer(d, scheduleTimeMenu(b[2]))} \cup createSchedulesFromButtons(d)
      [] b[1] = "sched:open"      -> showSchedule(d)
      [] b[1] = "sched:run"       -> runSchedule(d)
      [] b[1] = "sched:toggle"    -> setScheduleEnabled(d)
      [] b[1] = "sched:delete"    -> deleteSchedule(d)

-----------------------------------------------------------------------------
\* Router.

SessionCommands == {"start", "connect", "session", "delete_session", "phone", "code", "password", "settings"}

SourceCommands == {"folders", "chats", "sync", "groups", "group_create", "group_rename", "group_delete",
                   "group_add_chat", "group_add_public", "group_remove_chat", "group_chats", "collect_group"}

ReadingCommands == {"summarize_collection", "summaries", "summary", "summary_topics", "topic",
                    "article_from_summary", "article_from_topic", "articles", "article", "article_title",
                    "article_tags", "export_article", "export_summary"}

ScheduleCommands == {"schedules", "schedule_create", "schedule", "schedule_enable", "schedule_disable",
                     "schedule_delete", "schedule_run"}

Commands == SessionCommands \cup SourceCommands \cup ReadingCommands \cup ScheduleCommands

\* A text without a command.
handleDialogInput(d, gs) ==
    CASE d.view = "auth_phone"         -> submitPhone(d)
      [] d.view = "auth_code"          -> submitCode(d)
      [] d.view = "auth_password"      -> submitPassword(d)
      [] d.view = "add_public_channel" -> addPublicChannelFromDialog(d, gs)
      [] OTHER                         -> showHome

SessionCommand(d, c) ==
    CASE c = "start"          -> showHome
      [] c = "connect"        -> startAuth(d)
      [] c = "session"        -> showAuthStatus(d)
      [] c = "delete_session" -> deleteSession(d)
      [] c = "phone"          -> phoneCommand(d)
      [] c = "code"           -> submitCode(d)
      [] c = "password"       -> passwordCommand(d)
      [] c = "settings"       -> showSettings

SourceCommand(d, gs, c, g) ==
    CASE c = "folders"           -> showFolders(d)
      [] c = "chats"             -> showChatsPage(d)
      [] c = "sync"              -> syncTelegram(d, gs)
      [] c = "groups"            -> showGroups(d, gs)
      [] c = "group_create"      -> createGroup(d, gs, g)
      [] c = "group_rename"      -> renameGroup(d)
      [] c = "group_delete"      -> deleteGroup(d, gs, g)
      [] c = "group_add_chat"    -> addGroupChat(d)
      [] c = "group_add_public"  -> addPublicChannelCommand(d, gs, g)
      [] c = "group_remove_chat" -> removeGroupChat(d)
      [] c = "group_chats"       -> showGroupChats(d, gs, g)
      [] c = "collect_group"     -> collectGroup(d)

ReadingCommand(d, c) ==
    CASE c = "summarize_collection" -> summarizeCollection(d)
      [] c = "summaries"            -> showSummaries(d)
      [] c = "summary"              -> showSummary(d)
      [] c = "summary_topics"       -> showSummaryTopics(d)
      [] c = "topic"                -> showTopic(d)
      [] c = "article_from_summary" -> createArticleFromSummary(d)
      [] c = "article_from_topic"   -> createArticleFromTopic(d)
      [] c = "articles"             -> showArticles(d)
      [] c = "article"              -> showArticle(d)
      [] c = "article_title"        -> renameArticle(d)
      [] c = "article_tags"         -> updateArticleTags(d)
      [] c = "export_article"       -> exportArticle(d)
      [] c = "export_summary"       -> exportSummary(d)

ScheduleCommand(d, c) ==
    CASE c = "schedules"       -> showSchedules(d)
      [] c = "schedule_create" -> createSchedule(d)
      [] c = "schedule"        -> showSchedule(d)
      [] c \in {"schedule_enable", "schedule_disable"} -> setScheduleEnabled(d)
      [] c = "schedule_delete" -> deleteSchedule(d)
      [] c = "schedule_run"    -> runSchedule(d)

dispatch(d, gs, c, g) ==
    CASE c \in SessionCommands  -> SessionCommand(d, c)
      [] c \in SourceCommands   -> SourceCommand(d, gs, c, g)
      [] c \in ReadingCommands  -> ReadingCommand(d, c)
      [] c \in ScheduleCommands -> ScheduleCommand(d, c)
      [] OTHER                  -> handleDialogInput(d, gs)

\* What a command or a text gets is a new message.
handleMessage(d, gs, c, g) == New(dispatch(d, gs, c, g))

\* By the prefix of the data first: "groups:list" is a button of the groups' section.
handleCallback(d, gs, b) ==
    LET data == b[1] IN
    CASE data \in {"sum:list", "sum:open", "sum:topic"} -> handleSummaryCallback(d, b)
      [] data \in {"newsum:group", "newsum:addpublic", "newsum:mode", "newsum:generate"} ->
             handleNewSummaryCallback(d, b)
      [] data \in {"sched:group", "sched:addpublic", "sched:count", "sched:time", "sched:open", "sched:run",
                   "sched:toggle", "sched:delete"} -> handleScheduleCallback(d, b)
      [] data \in {"groups:list", "groups:open", "groups:addpublic", "groups:sync"} ->
             handleGroupsCallback(d, gs, b)
      [] data \in {"art:list", "art:open", "art:summary", "art:topic"} -> handleArticleCallback(d, b)
      [] data \in {"exp:article", "exp:summary"} -> handleExportCallback(d)
      [] data = "chats:page"       -> showChatsPage(d)
      [] data = "home"             -> showHome
      [] data = "summary:new"      -> showNewSummary(d, gs)
      [] data = "folders:list"     -> showFolders(d)
      [] data = "sources:selected" -> showChatsPage(d)
      [] data = "history:list"     -> showSummaries(d)
      [] data = "articles:list"    -> showArticles(d)
      [] data = "schedules:list"   -> showSchedules(d)
      [] data = "schedule:new"     -> showScheduleGroupPicker(d, gs)
      [] data = "settings:open"    -> showSettings
      [] data = "auth:connect"     -> startAuth(d)
      [] data = "auth:status"      -> showAuthStatus(d)
      [] data = "auth:delete"      -> deleteSession(d)
=============================================================================
