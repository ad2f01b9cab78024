----------------------------- MODULE BotProofs -----------------------------
(***************************************************************************)
(* Proofs about the bot, for any groups, messages and tasks: a text is     *)
(* taken for what the bot asked, and a message that says work is under way *)
(* has a task that will write over it.                                     *)
(***************************************************************************)
EXTENDS BotProps, TLAPS

\* What a screen asks for when it puts the router into a dialog.
Linked(d, q) == /\ d.view = "auth_phone" => q = <<"phone", NoGroup>>
                /\ d.view = "auth_password" => q = <<"password", NoGroup>>
                /\ d.view = "add_public_channel" => q = <<"channel", d.group>>

AnswerSet == [dialog : Dialogs, menu : SUBSET Offered, edit : BOOLEAN, asks : Questions \cup {Same},
              beside : Questions, took : Questions, toggled : SUBSET Groups]

\* An answer keeps the dialog and asks nothing new, or says what it asks.
Sound(x, d) == /\ x \in AnswerSet
               /\ IF x.asks = Same THEN x.dialog = d ELSE Linked(x.dialog, x.asks)

AllSound(answers, d) == \A x \in answers : Sound(x, d)

-----------------------------------------------------------------------------
\* The menus.

LEMMA DataForms ==
    ASSUME NEW b \in Offered
    PROVE  \/ /\ b[2] = NoGroup /\ b = <<b[1], b[2]>>
              /\ b[1] \in {"home", "summary:new", "folders:list", "groups:list", "sources:selected", "history:list",
                           "articles:list", "schedules:list", "settings:open", "auth:connect", "auth:status",
                           "auth:delete", "chats:page", "groups:sync", "newsum:generate", "sum:open", "sum:list",
                           "sum:topic", "art:summary", "art:topic", "art:open", "art:list", "exp:summary",
                           "exp:article", "schedule:new", "sched:open", "sched:run", "sched:toggle", "sched:delete"}
           \/ /\ b[2] \in Groups /\ b = <<b[1], b[2]>>
              /\ b[1] \in {"groups:open", "groups:addpublic", "newsum:group", "newsum:mode", "newsum:addpublic",
                           "sched:group", "sched:count", "sched:addpublic", "sched:time"}
<1>1. CASE b \in MainMenu \cup SettingsMenu \cup chatsMenu \cup collectionResultMenu
    BY <1>1 DEF MainMenu, SettingsMenu, chatsMenu, collectionResultMenu, Button
<1>2. CASE b \in summaryResultMenu \cup summaryMenu \cup topicMenu \cup articlesMenu \cup articleMenu
    BY <1>2 DEF summaryResultMenu, summaryMenu, topicMenu, articlesMenu, articleMenu, Button
<1>3. CASE b \in scheduleListMenu \cup scheduleItemMenu
    BY <1>3 DEF scheduleListMenu, scheduleItemMenu, Button
<1>4. CASE b \in groupsMenu(Groups) \cup newSummaryGroupsMenu(Groups) \cup scheduleGroupsMenu(Groups)
    BY <1>4 DEF groupsMenu, newSummaryGroupsMenu, scheduleGroupsMenu, Button
<1>5. ASSUME NEW g \in Groups,
             b \in groupDetailsMenu(g) \cup newSummaryModeMenu(g) \cup scheduleCountMenu(g) \cup scheduleTimeMenu(g)
      PROVE  \/ b[2] = NoGroup /\ b = <<b[1], b[2]>> /\ b[1] \in {"groups:list", "home", "summary:new", "schedule:new"}
             \/ /\ b[2] \in Groups /\ b = <<b[1], b[2]>>
                /\ b[1] \in {"groups:addpublic", "newsum:group", "newsum:mode", "newsum:addpublic",
                             "sched:group", "sched:count", "sched:addpublic", "sched:time"}
    BY <1>5 DEF groupDetailsMenu, newSummaryModeMenu, scheduleCountMenu, scheduleTimeMenu, Button
<1> QED BY <1>1, <1>2, <1>3, <1>4, <1>5 DEF Offered

LEMMA PlainMenus ==
    /\ MainMenu \subseteq Offered /\ SettingsMenu \subseteq Offered /\ chatsMenu \subseteq Offered
    /\ collectionResultMenu \subseteq Offered /\ summaryResultMenu \subseteq Offered
    /\ summaryMenu \subseteq Offered /\ topicMenu \subseteq Offered /\ articlesMenu \subseteq Offered
    /\ articleMenu \subseteq Offered /\ scheduleListMenu \subseteq Offered /\ scheduleItemMenu \subseteq Offered
BY DEF Offered

\* The menus of a group, and of some groups.
LEMMA GroupMenus ==
    ASSUME NEW g \in Groups
    PROVE  /\ groupDetailsMenu(g) \subseteq Offered /\ newSummaryModeMenu(g) \subseteq Offered
           /\ scheduleCountMenu(g) \subseteq Offered /\ scheduleTimeMenu(g) \subseteq Offered
BY DEF Offered

LEMMA GroupsOfAny ==
    ASSUME NEW gs \in SUBSET Groups
    PROVE  /\ groupsMenu(gs) \subseteq Offered /\ newSummaryGroupsMenu(gs) \subseteq Offered
           /\ scheduleGroupsMenu(gs) \subseteq Offered
<1>1. groupsMenu(gs) \subseteq groupsMenu(Groups)
    BY DEF groupsMenu
<1>2. newSummaryGroupsMenu(gs) \subseteq newSummaryGroupsMenu(Groups)
    BY DEF newSummaryGroupsMenu
<1>3. scheduleGroupsMenu(gs) \subseteq scheduleGroupsMenu(Groups)
    BY DEF scheduleGroupsMenu
<1> QED BY <1>1, <1>2, <1>3 DEF Offered

\* The menus that share their buttons with others.
LEMMA SmallMenus ==
    /\ BackMenu \subseteq Offered /\ summariesMenu \subseteq Offered
    /\ {Button("groups:list"), Button("home")} \subseteq Offered
    /\ {Button("groups:list"), Button("schedules:list")} \subseteq Offered
    /\ articleProgressMenu \subseteq Offered /\ summaryProgressMenu \subseteq Offered
    /\ \A g \in Groups, ret \in Returns : publicChannelBackMenu(g, ret) \subseteq Offered
<1>1. /\ Button("home") \in Offered /\ Button("groups:list") \in Offered /\ Button("schedules:list") \in Offered
      /\ Button("sum:open") \in Offered /\ Button("sum:list") \in Offered /\ Button("art:list") \in Offered
    <2>1. Button("home") \in BackMenu /\ Button("home") \in SettingsMenu
        BY DEF BackMenu, SettingsMenu
    <2>4. Button("groups:list") \in MainMenu
        BY DEF MainMenu
    <2>5. Button("schedules:list") \in MainMenu
        BY DEF MainMenu
    <2>2. Button("sum:open") \in summaryResultMenu /\ Button("sum:list") \in summaryResultMenu
        BY DEF summaryResultMenu
    <2>3. Button("art:list") \in articleMenu
        BY DEF articleMenu
    <2> QED BY <2>1, <2>2, <2>3, <2>4, <2>5, PlainMenus
<1>2. ASSUME NEW g \in Groups, NEW ret \in Returns PROVE publicChannelBackMenu(g, ret) \subseteq Offered
    <2>1. <<"groups:open", g>> \in groupsMenu(Groups) /\ <<"newsum:group", g>> \in newSummaryGroupsMenu(Groups)
          /\ <<"sched:group", g>> \in scheduleGroupsMenu(Groups)
        BY DEF groupsMenu, newSummaryGroupsMenu, scheduleGroupsMenu
    <2>2. publicChannelReturnCallback(g, ret) \in {<<"groups:open", g>>, <<"newsum:group", g>>, <<"sched:group", g>>}
        BY DEF publicChannelReturnCallback, Returns
    <2>3. publicChannelReturnCallback(g, ret) \in Offered
        BY <2>1, <2>2, GroupsOfAny
    <2> QED BY <2>3 DEF publicChannelBackMenu
<1> QED BY <1>1, <1>2 DEF BackMenu, summariesMenu, articleProgressMenu, summaryProgressMenu

-----------------------------------------------------------------------------
\* Answers.

LEMMA Distinct ==
    /\ NoText \in Questions /\ NoText # Same
    /\ \A q \in {"phone", "code", "password"} : <<q, NoGroup>> \in Questions /\ <<q, NoGroup>> # Same
    /\ \A g \in Groups : <<"channel", g>> \in Questions /\ <<"channel", g>> # Same
BY DEF Questions, NoText, Same

LEMMA ViewDialog ==
    ASSUME NEW v \in Views \cup {"none"}
    PROVE  View(v) \in Dialogs /\ View(v).view = v
BY DEF Dialogs, View

LEMMA AddDialog ==
    ASSUME NEW g \in Groups, NEW ret \in Returns
    PROVE  AddTo(g, ret) \in Dialogs /\ AddTo(g, ret).view = "add_public_channel" /\ AddTo(g, ret).group = g
BY DEF Dialogs, AddTo

\* The parts of a dialog that waits for a channel.
LEMMA DialogParts ==
    ASSUME NEW d \in Dialogs, d.view = "add_public_channel"
    PROVE  d.group \in Groups /\ d.return \in Returns
<1>1. ASSUME NEW v \in Views \cup {"none"}, d = View(v) PROVE FALSE
    BY <1>1 DEF View, Views, Sections
<1>2. \E g \in Groups, ret \in Returns : d = AddTo(g, ret)
    BY <1>1, Zenon DEF Dialogs
<1> QED BY <1>2 DEF AddTo

LEMMA KeepSound ==
    ASSUME NEW d \in Dialogs, NEW menu \in SUBSET Offered
    PROVE  Sound(Answer(d, menu), d)
BY Distinct DEF Answer, Sound, AnswerSet

LEMMA AskSound ==
    ASSUME NEW d \in Dialogs, NEW e \in Dialogs, NEW menu \in SUBSET Offered, NEW q \in Questions,
           q # Same, Linked(e, q), NEW gs \in SUBSET Groups
    PROVE  /\ Sound([Answer(e, menu) EXCEPT !.asks = q], d)
           /\ Sound([Answer(e, menu) EXCEPT !.asks = q, !.toggled = gs], d)
BY Distinct DEF Answer, Sound, AnswerSet

LEMMA ShowsSound ==
    ASSUME NEW d \in Dialogs, NEW v \in Sections, NEW menu \in SUBSET Offered
    PROVE  AllSound(Shows(v, menu), d)
<1>1. View(v) \in Dialogs /\ View(v).view = v
    BY ViewDialog DEF Views
<1>2. v # "auth_phone" /\ v # "auth_password" /\ v # "add_public_channel"
    BY DEF Sections
<1>3. Linked(View(v), NoText)
    BY <1>1, <1>2 DEF Linked
<1>4. Sound([Answer(View(v), menu) EXCEPT !.asks = NoText], d)
    BY <1>1, <1>3, AskSound, Distinct
<1> QED BY <1>4 DEF Shows, AllSound

LEMMA FailsSound == ASSUME NEW d \in Dialogs PROVE AllSound(Fails(d), d)
BY KeepSound, SmallMenus DEF Fails, AllSound

\* A question beside the dialog, and the dialog's question once more.
LEMMA BesideSound ==
    ASSUME NEW d \in Dialogs, NEW menu \in SUBSET Offered, NEW q \in Questions
    PROVE  AllSound(Beside(d, menu, q), d)
<1>1. Sound([Answer(d, menu) EXCEPT !.beside = q], d)
    BY Distinct DEF Answer, Sound, AnswerSet
<1> QED BY <1>1 DEF Beside, AllSound

LEMMA AgainSound ==
    ASSUME NEW d \in Dialogs, NEW menu \in SUBSET Offered, NEW q \in Questions, q # Same, Linked(d, q)
    PROVE  AllSound(Again(d, menu, q), d)
<1>1. Sound([Answer(d, menu) EXCEPT !.asks = q], d)
    BY AskSound
<1> QED BY <1>1 DEF Again, AllSound

LEMMA KeepsSound ==
    ASSUME NEW d \in Dialogs, NEW menu \in SUBSET Offered
    PROVE  AllSound(Keeps(d, menu), d)
BY KeepSound, FailsSound DEF Keeps, AllSound

LEMMA OneSound ==
    ASSUME NEW d \in Dialogs, NEW menu \in SUBSET Offered
    PROVE  AllSound({Answer(d, menu)}, d)
BY KeepSound DEF AllSound

LEMMA BothSound ==
    ASSUME NEW d, NEW S, NEW T, AllSound(S, d), AllSound(T, d) PROVE AllSound(S \cup T, d)
BY DEF AllSound

LEMMA NewSound ==
    ASSUME NEW d, NEW S, AllSound(S, d) PROVE AllSound(New(S), d)
<1>1. ASSUME NEW x \in S PROVE Sound([x EXCEPT !.edit = FALSE], d)
    BY <1>1 DEF AllSound, Sound, AnswerSet
<1> QED BY <1>1 DEF New, AllSound

LEMMA TookSound ==
    ASSUME NEW d, NEW S, NEW q \in Questions, AllSound(S, d) PROVE AllSound(Took(S, q), d)
<1>1. ASSUME NEW x \in S PROVE Sound([x EXCEPT !.took = q], d)
    BY <1>1 DEF AllSound, Sound, AnswerSet
<1> QED BY <1>1 DEF Took, AllSound

-----------------------------------------------------------------------------
\* The session.

LEMMA AuthSound ==
    ASSUME NEW d \in Dialogs
    PROVE  /\ AllSound(AuthFails(d), d) /\ AllSound(Authorizes(d), d)
           /\ AllSound(deleteSession(d), d) /\ AllSound(showAuthStatus(d), d) /\ AllSound(startAuth(d), d)
           /\ AllSound(phoneCommand(d), d) /\ AllSound(passwordCommand(d), d)
<1>0. AllSound(Shows("settings", SettingsMenu), d)
    BY ShowsSound, PlainMenus DEF Sections
<1>1. AllSound(AuthFails(d), d)
    BY KeepSound, PlainMenus DEF AuthFails, AllSound
<1>2. ASSUME NEW p \in {<<"auth_phone", "phone">>, <<"auth_code", "code">>, <<"auth_password", "password">>}
      PROVE  Sound([Answer(View(p[1]), BackMenu) EXCEPT !.asks = <<p[2], NoGroup>>], d)
    <2>1. p[1] \in Views /\ p[2] \in {"phone", "code", "password"}
        BY DEF Views
    <2>2. View(p[1]) \in Dialogs /\ View(p[1]).view = p[1]
        BY <2>1, ViewDialog
    <2>3. Linked(View(p[1]), <<p[2], NoGroup>>)
        BY <2>2 DEF Linked
    <2> QED BY <2>1, <2>2, <2>3, AskSound, Distinct, SmallMenus
<1>3. AllSound(showAuthPrompt(d), d)
    BY <1>0, <1>2 DEF showAuthPrompt, AllSound
<1>4. AllSound(Authorizes(d), d)
    BY <1>1, <1>3, BothSound DEF Authorizes
<1>5. /\ AllSound(Beside(d, SettingsMenu, Phone), d) /\ AllSound(Beside(d, SettingsMenu, Password), d)
      /\ AllSound(Beside(d, BackMenu, Phone), d) /\ AllSound(Beside(d, BackMenu, Password), d)
    BY BesideSound, PlainMenus, SmallMenus, Distinct DEF Phone, Password
<1>6. AllSound(showAuthStatus(d), d) /\ AllSound(phoneCommand(d), d) /\ AllSound(passwordCommand(d), d)
    BY <1>1, <1>4, <1>5 DEF showAuthStatus, phoneCommand, passwordCommand, AllSound
<1> QED BY <1>0, <1>1, <1>4, <1>6, BothSound DEF deleteSession, startAuth

LEMMA PromptSound ==
    ASSUME NEW d \in Dialogs, NEW g \in Groups, NEW ret \in Returns
    PROVE  AllSound(promptPublicChannel(g, ret), d)
<1>1. Linked(AddTo(g, ret), <<"channel", g>>)
    BY AddDialog DEF Linked
<1>2. Sound([Answer(AddTo(g, ret), publicChannelBackMenu(g, ret)) EXCEPT !.asks = <<"channel", g>>], d)
    BY <1>1, AddDialog, AskSound, Distinct, SmallMenus
<1> QED BY <1>2 DEF promptPublicChannel, AllSound

LEMMA ChannelSound ==
    ASSUME NEW d \in Dialogs, NEW gs \in SUBSET Groups, NEW g \in Groups, NEW ret \in Returns
    PROVE  AllSound(addPublicChannel(d, gs, g, ret), d)
<1>1. Sound(Answer(d, publicChannelBackMenu(g, ret)), d)
    BY KeepSound, SmallMenus
<1>2. returnDialogView(ret) \in Sections /\ publicChannelSuccessMenu(g, ret) \subseteq Offered
    BY GroupMenus DEF returnDialogView, publicChannelSuccessMenu, Returns, Sections
<1>3. AllSound(Shows(returnDialogView(ret), publicChannelSuccessMenu(g, ret)), d)
    BY <1>2, ShowsSound
<1> QED BY <1>1, <1>3 DEF addPublicChannel, Shows, AllSound

LEMMA FromDialogSound ==
    ASSUME NEW d \in Dialogs, NEW gs \in SUBSET Groups, d.view = "add_public_channel"
    PROVE  AllSound(addPublicChannelFromDialog(d, gs), d)
<1>1. d.group \in Groups /\ d.return \in Returns
    BY DialogParts
<1>2. AllSound(addPublicChannel(d, gs, d.group, d.return), d)
    BY <1>1, ChannelSound
<1>3. Linked(d, <<"channel", d.group>>)
    BY DEF Linked
<1>4. AllSound(Again(d, publicChannelBackMenu(d.group, d.return), <<"channel", d.group>>), d)
    BY <1>1, <1>3, AgainSound, SmallMenus, Distinct
<1>5. AllSound(addPublicChannel(d, gs, d.group, d.return)
                   \cup Again(d, publicChannelBackMenu(d.group, d.return), <<"channel", d.group>>), d)
    BY <1>2, <1>4, BothSound
<1> QED BY <1>1, <1>5, TookSound, Distinct DEF addPublicChannelFromDialog

\* Texts: what a dialog takes one for.
LEMMA TextSound ==
    ASSUME NEW d \in Dialogs, NEW gs \in SUBSET Groups
    PROVE  AllSound(handleDialogInput(d, gs), d)
<1>1. ASSUME d.view = "auth_phone" PROVE AllSound(submitPhone(d), d)
    <2>1. Linked(d, Phone) /\ Phone \in Questions /\ Phone # Same
        BY <1>1, Distinct DEF Linked, Phone
    <2>2. AllSound(Again(d, SettingsMenu, Phone), d) /\ AllSound(Again(d, BackMenu, Phone), d)
        BY <2>1, AgainSound, PlainMenus, SmallMenus
    <2>3. AllSound(Took(Authorizes(d) \cup Again(d, SettingsMenu, Phone), Phone), d)
        BY <2>1, <2>2, AuthSound, BothSound, TookSound
    <2> QED BY <2>2, <2>3, BothSound DEF submitPhone
<1>2. AllSound(submitCode(d), d)
    BY FailsSound DEF submitCode
<1>3. ASSUME d.view = "auth_password" PROVE AllSound(submitPassword(d), d)
    <2>1. Linked(d, Password) /\ Password \in Questions /\ Password # Same
        BY <1>3, Distinct DEF Linked, Password
    <2>2. AllSound(Again(d, BackMenu, Password), d)
        BY <2>1, AgainSound, SmallMenus
    <2>3. AllSound(Took(Authorizes(d), Password), d)
        BY <2>1, AuthSound, TookSound
    <2> QED BY <2>2, <2>3, BothSound DEF submitPassword
<1>4. AllSound(showHome, d)
    BY ShowsSound, PlainMenus DEF showHome, Sections
<1> QED BY <1>1, <1>2, <1>3, <1>4, FromDialogSound DEF handleDialogInput

-----------------------------------------------------------------------------
\* The sections.

LEMMA SectionsSound ==
    ASSUME NEW d \in Dialogs, NEW gs \in SUBSET Groups
    PROVE  /\ AllSound(showHome, d) /\ AllSound(showSettings, d) /\ AllSound(showFolders(d), d)
           /\ AllSound(showChatsPage(d), d) /\ AllSound(showGroups(d, gs), d) /\ AllSound(showSummaries(d), d)
           /\ AllSound(showArticles(d), d) /\ AllSound(showSchedules(d), d) /\ AllSound(showNewSummary(d, gs), d)
<1>1. AllSound(showHome, d) /\ AllSound(showSettings, d)
    BY ShowsSound, PlainMenus DEF showHome, showSettings, Sections
<1>2. AllSound(showFolders(d), d) /\ AllSound(showChatsPage(d), d)
    BY ShowsSound, PlainMenus, SmallMenus, BothSound, FailsSound DEF showFolders, showChatsPage, Sections
<1>3. groupsMenu(gs) \subseteq Offered /\ newSummaryGroupsMenu(gs) \subseteq Offered
    BY GroupsOfAny
<1>4. AllSound(showGroups(d, gs), d)
    BY <1>3, ShowsSound, BothSound, FailsSound DEF showGroups, Sections
<1>5. AllSound(showSummaries(d), d)
    <2>1. AllSound(Shows("history", summariesMenu), d) /\ AllSound(Shows("history", BackMenu), d)
        BY ShowsSound, SmallMenus DEF Sections
    <2> QED BY <2>1, FailsSound DEF showSummaries, AllSound
<1>6. AllSound(showArticles(d), d)
    <2>1. AllSound(Shows("articles", articlesMenu), d) /\ AllSound(Shows("articles", BackMenu), d)
        BY ShowsSound, SmallMenus, PlainMenus DEF Sections
    <2> QED BY <2>1, FailsSound DEF showArticles, AllSound
<1>7. AllSound(showSchedules(d), d)
    BY ShowsSound, PlainMenus, BothSound, FailsSound DEF showSchedules, Sections
<1>8. AllSound(showNewSummary(d, gs), d)
    <2>1. AllSound(Shows("new_summary", {Button("groups:list"), Button("home")}), d)
        BY ShowsSound, SmallMenus DEF Sections
    <2>2. AllSound(Shows("new_summary", newSummaryGroupsMenu(gs)), d)
        BY <1>3, ShowsSound DEF Sections
    <2> QED BY <2>1, <2>2, BothSound, FailsSound DEF showNewSummary
<1> QED BY <1>1, <1>2, <1>4, <1>5, <1>6, <1>7, <1>8

LEMMA SyncSound ==
    ASSUME NEW d \in Dialogs, NEW gs \in SUBSET Groups
    PROVE  AllSound(syncTelegram(d, gs), d)
<1>1. View("folders") \in Dialogs /\ Linked(View("folders"), NoText)
    BY ViewDialog DEF Views, Sections, Linked
<1>2. ASSUME NEW new \in SUBSET (Groups \ gs)
      PROVE  Sound([Answer(View("folders"), BackMenu) EXCEPT !.asks = NoText, !.toggled = new], d)
    BY <1>1, <1>2, AskSound, Distinct, SmallMenus
<1> QED BY <1>2, FailsSound DEF syncTelegram, AllSound

LEMMA GroupSound ==
    ASSUME NEW d \in Dialogs, NEW gs \in SUBSET Groups, NEW g \in Groups
    PROVE  /\ AllSound(createGroup(d, gs, g), d) /\ AllSound(deleteGroup(d, gs, g), d)
           /\ AllSound(showGroupChats(d, gs, g), d) /\ AllSound(addPublicChannelCommand(d, gs, g), d)
<1>1. Sound([Answer(d, BackMenu) EXCEPT !.toggled = {g}], d)
    BY Distinct, SmallMenus DEF Answer, Sound, AnswerSet
<1>2. AllSound(createGroup(d, gs, g), d) /\ AllSound(deleteGroup(d, gs, g), d)
    BY <1>1, FailsSound DEF createGroup, deleteGroup, AllSound
<1>3. AllSound(showGroupChats(d, gs, g), d)
    BY KeepSound, GroupMenus, FailsSound DEF showGroupChats, AllSound
<1>4. AllSound(addPublicChannelCommand(d, gs, g), d)
    <2>1. AllSound(addPublicChannel(d, gs, g, "groups"), d)
        BY ChannelSound DEF Returns
    <2>2. publicChannelBackMenu(g, "groups") \subseteq Offered
        BY SmallMenus DEF Returns
    <2>3. AllSound(Beside(d, publicChannelBackMenu(g, "groups"), <<"channel", g>>), d)
        BY <2>2, BesideSound, Distinct
    <2> QED BY <2>1, <2>3, FailsSound DEF addPublicChannelCommand, AllSound
<1> QED BY <1>2, <1>3, <1>4

\* Reading and schedules: everything that keeps the dialog.
LEMMA WorkSound ==
    ASSUME NEW d \in Dialogs, NEW gs \in SUBSET Groups
    PROVE  /\ AllSound(collectGroupFromButton(d), d) /\ AllSound(generateSummaryFromButton(d), d)
           /\ AllSound(renderSummary(d), d) /\ AllSound(renderTopic(d), d) /\ AllSound(renderArticle(d), d)
           /\ AllSound(convertArticleSummary(d), d) /\ AllSound(convertArticleTopic(d), d)
           /\ AllSound(exportOutgoing(d), d) /\ AllSound(showSchedule(d), d) /\ AllSound(setScheduleEnabled(d), d)
           /\ AllSound(deleteSchedule(d), d) /\ AllSound(runSchedule(d), d)
           /\ AllSound(showScheduleGroupPicker(d, gs), d) /\ AllSound(createSchedulesFromButtons(d), d)
<1>1. /\ AllSound(collectGroupFromButton(d), d) /\ AllSound(generateSummaryFromButton(d), d)
      /\ AllSound(renderSummary(d), d) /\ AllSound(renderArticle(d), d) /\ AllSound(showSchedule(d), d)
    BY KeepsSound, PlainMenus
    DEF collectGroupFromButton, generateSummaryFromButton, renderSummary, renderArticle, showSchedule
<1>2. AllSound(convertArticleSummary(d), d) /\ AllSound(convertArticleTopic(d), d)
    BY KeepsSound, PlainMenus DEF convertArticleSummary, convertArticleTopic
<1>3. AllSound(renderTopic(d), d) /\ AllSound(createSchedulesFromButtons(d), d)
    BY KeepsSound, OneSound, BothSound, PlainMenus DEF renderTopic, createSchedulesFromButtons
<1>4. AllSound(exportOutgoing(d), d) /\ AllSound(deleteSchedule(d), d) /\ AllSound(runSchedule(d), d)
    BY FailsSound, NewSound DEF exportOutgoing, deleteSchedule, runSchedule
<1>5. AllSound(setScheduleEnabled(d), d)
    BY KeepsSound, PlainMenus, NewSound DEF setScheduleEnabled
<1>6. AllSound(showScheduleGroupPicker(d, gs), d)
    <2>1. scheduleGroupsMenu(gs) \subseteq Offered
        BY GroupsOfAny
    <2>2. AllSound({Answer(d, scheduleGroupsMenu(gs))}, d)
          /\ AllSound({Answer(d, {Button("groups:list"), Button("schedules:list")})}, d)
        BY <2>1, OneSound, SmallMenus
    <2> QED BY <2>2, FailsSound, BothSound DEF showScheduleGroupPicker
<1> QED BY <1>1, <1>2, <1>3, <1>4, <1>5, <1>6

-----------------------------------------------------------------------------
\* The router.

LEMMA PlainButtonSound ==
    ASSUME NEW d \in Dialogs, NEW gs \in SUBSET Groups, NEW b,
           b[1] \in {"home", "summary:new", "folders:list", "groups:list", "sources:selected", "history:list",
                     "articles:list", "schedules:list", "settings:open", "auth:connect", "auth:status",
                     "auth:delete", "chats:page", "groups:sync", "newsum:generate", "sum:open", "sum:list",
                     "sum:topic", "art:summary", "art:topic", "art:open", "art:list", "exp:summary",
                     "exp:article", "schedule:new", "sched:open", "sched:run", "sched:toggle", "sched:delete"}
    PROVE  AllSound(handleCallback(d, gs, b), d)
<1>1. CASE b[1] \in {"home", "summary:new", "folders:list", "sources:selected", "history:list", "articles:list",
                     "schedules:list", "settings:open", "chats:page"}
    BY <1>1, SectionsSound DEF handleCallback
<1>2. CASE b[1] \in {"auth:connect", "auth:status", "auth:delete"}
    BY <1>2, AuthSound DEF handleCallback
<1>3. CASE b[1] \in {"groups:list", "groups:sync"}
    BY <1>3, SectionsSound, SyncSound DEF handleCallback, handleGroupsCallback
<1>4. CASE b[1] \in {"sum:open", "sum:list", "sum:topic"}
    BY <1>4, SectionsSound, WorkSound DEF handleCallback, handleSummaryCallback
<1>5. CASE b[1] \in {"art:summary", "art:topic", "art:open", "art:list"}
    BY <1>5, SectionsSound, WorkSound DEF handleCallback, handleArticleCallback
<1>6. CASE b[1] \in {"exp:summary", "exp:article"}
    BY <1>6, WorkSound DEF handleCallback, handleExportCallback
<1>7. CASE b[1] \in {"sched:open", "sched:run", "sched:toggle", "sched:delete"}
    BY <1>7, WorkSound DEF handleCallback, handleScheduleCallback
<1>8. CASE b[1] \in {"newsum:generate", "schedule:new"}
    BY <1>8, WorkSound DEF handleCallback, handleNewSummaryCallback
<1> QED BY <1>1, <1>2, <1>3, <1>4, <1>5, <1>6, <1>7, <1>8

LEMMA GroupButtonSound ==
    ASSUME NEW d \in Dialogs, NEW gs \in SUBSET Groups, NEW b, b[2] \in Groups,
           b[1] \in {"groups:open", "groups:addpublic", "newsum:group", "newsum:mode", "newsum:addpublic",
                     "sched:group", "sched:count", "sched:addpublic", "sched:time"}
    PROVE  AllSound(handleCallback(d, gs, b), d)
<1>1. AllSound(promptPublicChannel(b[2], "groups"), d) /\ AllSound(promptPublicChannel(b[2], "newsum"), d)
      /\ AllSound(promptPublicChannel(b[2], "schedule"), d)
    BY PromptSound DEF Returns
<1>2. AllSound({Answer(d, newSummaryModeMenu(b[2]))}, d) /\ AllSound({Answer(d, scheduleCountMenu(b[2]))}, d)
      /\ AllSound({Answer(d, scheduleTimeMenu(b[2]))}, d)
    BY OneSound, GroupMenus
<1>3. CASE b[1] \in {"groups:open", "groups:addpublic"}
    BY <1>1, <1>3, GroupSound DEF handleCallback, handleGroupsCallback
<1>4. CASE b[1] \in {"newsum:group", "newsum:mode", "newsum:addpublic"}
    BY <1>1, <1>2, <1>4, WorkSound DEF handleCallback, handleNewSummaryCallback
<1>5. CASE b[1] \in {"sched:group", "sched:count", "sched:addpublic"}
    BY <1>1, <1>2, <1>5 DEF handleCallback, handleScheduleCallback
<1>6. CASE b[1] = "sched:time"
    <2>1. AllSound({Answer(d, scheduleTimeMenu(b[2]))} \cup createSchedulesFromButtons(d), d)
        BY <1>2, WorkSound, BothSound
    <2> QED BY <1>6, <2>1 DEF handleCallback, handleScheduleCallback
<1> QED BY <1>3, <1>4, <1>5, <1>6

LEMMA CallbackSound ==
    ASSUME NEW d \in Dialogs, NEW gs \in SUBSET Groups, NEW b \in Offered
    PROVE  AllSound(handleCallback(d, gs, b), d)
BY DataForms, PlainButtonSound, GroupButtonSound

LEMMA SessionCommandSound ==
    ASSUME NEW d \in Dialogs, NEW c \in SessionCommands
    PROVE  AllSound(SessionCommand(d, c), d)
<1>1. AllSound(submitCode(d), d)
    BY FailsSound DEF submitCode
<1>2. AllSound(showHome, d) /\ AllSound(showSettings, d)
    BY ShowsSound, PlainMenus DEF showHome, showSettings, Sections
<1> QED BY <1>1, <1>2, AuthSound DEF SessionCommand, SessionCommands

LEMMA SourceCommandSound ==
    ASSUME NEW d \in Dialogs, NEW gs \in SUBSET Groups, NEW c \in SourceCommands, NEW g \in Groups
    PROVE  AllSound(SourceCommand(d, gs, c, g), d)
<1>1. CASE c \in {"folders", "chats", "groups", "sync"}
    BY <1>1, SectionsSound, SyncSound DEF SourceCommand
<1>2. CASE c \in {"group_create", "group_delete", "group_add_public", "group_chats"}
    BY <1>2, GroupSound DEF SourceCommand
<1>3. CASE c \in {"group_rename", "group_add_chat", "group_remove_chat", "collect_group"}
    BY <1>3, FailsSound DEF SourceCommand, renameGroup, addGroupChat, removeGroupChat, collectGroup
<1> QED BY <1>1, <1>2, <1>3 DEF SourceCommands

LEMMA ReadingCommandSound ==
    ASSUME NEW d \in Dialogs, NEW c \in ReadingCommands
    PROVE  AllSound(ReadingCommand(d, c), d)
<1>0. AllSound(Keeps(d, articleMenu), d)
    BY KeepsSound, PlainMenus
<1>1. CASE c \in {"summaries", "articles", "summarize_collection"}
    BY <1>1, SectionsSound, FailsSound DEF ReadingCommand, summarizeCollection
<1>2. CASE c \in {"summary", "summary_topics", "topic"}
    BY <1>2, WorkSound DEF ReadingCommand, showSummary, showSummaryTopics, showTopic
<1>3. CASE c \in {"article_from_summary", "article_from_topic"}
    BY <1>3, WorkSound, FailsSound, BothSound DEF ReadingCommand, createArticleFromSummary, createArticleFromTopic
<1>4. CASE c \in {"article", "article_title", "article_tags"}
    BY <1>0, <1>4, WorkSound DEF ReadingCommand, showArticle, renameArticle, updateArticleTags
<1>5. CASE c \in {"export_article", "export_summary"}
    BY <1>5, WorkSound, FailsSound, BothSound DEF ReadingCommand, exportArticle, exportSummary
<1> QED BY <1>1, <1>2, <1>3, <1>4, <1>5 DEF ReadingCommands

LEMMA ScheduleCommandSound ==
    ASSUME NEW d \in Dialogs, NEW c \in ScheduleCommands
    PROVE  AllSound(ScheduleCommand(d, c), d)
<1>1. AllSound(createSchedule(d), d)
    BY KeepsSound, PlainMenus DEF createSchedule
<1> QED BY <1>1, WorkSound, SectionsSound DEF ScheduleCommand, ScheduleCommands

\* No command is in two of the lists.
LEMMA Disjoint ==
    ASSUME NEW c
    PROVE  /\ c \in SessionCommands => c \notin SourceCommands \cup ReadingCommands \cup ScheduleCommands
           /\ c \in SourceCommands => c \notin SessionCommands \cup ReadingCommands \cup ScheduleCommands
           /\ c \in ReadingCommands => c \notin SessionCommands \cup SourceCommands \cup ScheduleCommands
           /\ c \in ScheduleCommands => c \notin SessionCommands \cup SourceCommands \cup ReadingCommands
BY DEF SessionCommands, SourceCommands, ReadingCommands, ScheduleCommands

LEMMA DispatchSound ==
    ASSUME NEW d \in Dialogs, NEW gs \in SUBSET Groups, NEW c \in Commands, NEW g \in Groups
    PROVE  AllSound(dispatch(d, gs, c, g), d)
<1>1. CASE c \in SessionCommands
    <2>1. dispatch(d, gs, c, g) = SessionCommand(d, c)
        BY <1>1, Disjoint DEF dispatch
    <2> QED BY <1>1, <2>1, SessionCommandSound
<1>2. CASE c \in SourceCommands
    <2>1. dispatch(d, gs, c, g) = SourceCommand(d, gs, c, g)
        BY <1>2, Disjoint DEF dispatch
    <2> QED BY <1>2, <2>1, SourceCommandSound
<1>3. CASE c \in ReadingCommands
    <2>1. dispatch(d, gs, c, g) = ReadingCommand(d, c)
        BY <1>3, Disjoint DEF dispatch
    <2> QED BY <1>3, <2>1, ReadingCommandSound
<1>4. CASE c \in ScheduleCommands
    <2>1. dispatch(d, gs, c, g) = ScheduleCommand(d, c)
        BY <1>4, Disjoint DEF dispatch
    <2> QED BY <1>4, <2>1, ScheduleCommandSound
<1> QED BY <1>1, <1>2, <1>3, <1>4 DEF Commands

LEMMA MessageSound ==
    ASSUME NEW d \in Dialogs, NEW gs \in SUBSET Groups, NEW c \in Commands, NEW g \in Groups
    PROVE  AllSound(handleMessage(d, gs, c, g), d)
BY DispatchSound, NewSound DEF handleMessage

\* A text without a command goes to the dialog.
LEMMA PlainTextSound ==
    ASSUME NEW d \in Dialogs, NEW gs \in SUBSET Groups
    PROVE  AllSound(handleMessage(d, gs, "", NoGroup), d)
<1>1. "" \notin SessionCommands /\ "" \notin SourceCommands /\ "" \notin ReadingCommands /\ "" \notin ScheduleCommands
    BY DEF SourceCommands, SessionCommands, ReadingCommands, ScheduleCommands
<1>2. dispatch(d, gs, "", NoGroup) = handleDialogInput(d, gs)
    BY <1>1 DEF dispatch
<1> QED BY <1>2, TextSound, NewSound DEF handleMessage

-----------------------------------------------------------------------------
\* What the tasks and the chat keep.

TaskSet == [message : Messages \cup {OutOfSight}, button : Offered] \cup {Idle}

ScreenSet == [menu : SUBSET Offered, busy : BOOLEAN]

\* Tasks of the right shape, each for a button that starts one.
GoodTasks(ts) == ts \in [Tasks -> TaskSet] /\ \A t \in Tasks : ts[t] # Idle => isAsync(ts[t].button)

LEMMA TypeParts == TypeOK => GoodTasks(tasks) /\ chat \in [Messages -> ScreenSet]
BY DEF TypeOK, GoodTasks, TaskSet, ScreenSet

LEMMA IdleIsNone == Idle.message = OutOfSight /\ OutOfSight \notin Messages /\ ~isAsync(Idle.button)
BY BotAssumption DEF Idle, OutOfSight, Messages, isAsync

LEMMA BeyondGood ==
    ASSUME NEW ts, GoodTasks(ts), NEW n \in Messages
    PROVE  GoodTasks(Beyond(ts, n))
<1>1. ASSUME NEW t \in Tasks, ts[t].message = n
      PROVE  [ts[t] EXCEPT !.message = OutOfSight] \in TaskSet /\ isAsync([ts[t] EXCEPT !.message = OutOfSight].button)
    <2>1. ts[t] # Idle
        BY <1>1, IdleIsNone
    <2> QED BY <1>1, <2>1 DEF GoodTasks, TaskSet, isAsync
<1>2. ASSUME NEW t \in Tasks
      PROVE  Beyond(ts, n)[t] \in TaskSet /\ (Beyond(ts, n)[t] # Idle => isAsync(Beyond(ts, n)[t].button))
    BY <1>1, <1>2 DEF GoodTasks, Beyond
<1>3. Beyond(ts, n) \in [Tasks -> TaskSet]
    BY <1>1 DEF GoodTasks, Beyond
<1> QED BY <1>2, <1>3 DEF GoodTasks

LEMMA WithoutGood ==
    ASSUME NEW ts, GoodTasks(ts), NEW t \in Tasks
    PROVE  GoodTasks([ts EXCEPT ![t] = Idle])
BY DEF GoodTasks, TaskSet

LEMMA WithGood ==
    ASSUME NEW ts, GoodTasks(ts), NEW t \in Tasks, NEW m \in Messages \cup {OutOfSight}, NEW b \in Offered, isAsync(b)
    PROVE  GoodTasks([ts EXCEPT ![t] = [message |-> m, button |-> b]])
BY DEF GoodTasks, TaskSet

LEMMA SendNewTyped ==
    ASSUME TypeOK, NEW screen \in ScreenSet, NEW ts, GoodTasks(ts), NEW lost \in SUBSET Messages,
           SendNew(screen, ts, lost)
    PROVE  GoodTasks(tasks') /\ chat' \in [Messages -> ScreenSet] /\ orphaned' \subseteq Messages
<1>1. CASE tasks' = ts /\ orphaned' = orphaned \cup lost /\ UNCHANGED chat
    BY <1>1, TypeParts DEF TypeOK
<1>2. ASSUME NEW n \in Messages, chat' = [chat EXCEPT ![n] = screen], tasks' = Beyond(ts, n),
             orphaned' = (orphaned \cup lost) \ {n}
      PROVE  GoodTasks(tasks') /\ chat' \in [Messages -> ScreenSet] /\ orphaned' \subseteq Messages
    BY <1>2, TypeParts, BeyondGood DEF TypeOK
<1> QED BY <1>1, <1>2 DEF SendNew

LEMMA EditTyped ==
    ASSUME TypeOK, NEW screen \in ScreenSet, NEW ts, GoodTasks(ts), NEW m, Edit(screen, m, ts)
    PROVE  GoodTasks(tasks') /\ chat' \in [Messages -> ScreenSet] /\ orphaned' \subseteq Messages
BY TypeParts DEF TypeOK, Edit

LEMMA SendTyped ==
    ASSUME TypeOK, NEW x \in AnswerSet, NEW ts, GoodTasks(ts), NEW m, NEW lost \in SUBSET Messages,
           Send(x, m, ts, lost)
    PROVE  GoodTasks(tasks') /\ chat' \in [Messages -> ScreenSet] /\ orphaned' \subseteq Messages
<1>1. Screen(x.menu) \in ScreenSet
    BY DEF AnswerSet, Screen, ScreenSet
<1>2. CASE Edit(Screen(x.menu), m, ts)
    BY <1>1, <1>2, EditTyped
<1>3. CASE SendNew(Screen(x.menu), ts, IF x.edit THEN lost ELSE {})
    BY <1>1, <1>3, SendNewTyped
<1> QED BY <1>2, <1>3 DEF Send

LEMMA TakesTyped ==
    ASSUME TypeOK, NEW x \in AnswerSet, Takes(x)
    PROVE  dialog' \in Dialogs /\ groups' \subseteq Groups /\ asked' \in Questions /\ beside' \in Questions
BY Distinct DEF TypeOK, AnswerSet, Takes

LEMMA TypeFrom ==
    ASSUME GoodTasks(tasks'), chat' \in [Messages -> ScreenSet], orphaned' \subseteq Messages,
           dialog' \in Dialogs, groups' \subseteq Groups, asked' \in Questions, beside' \in Questions,
           job' \in {"none", "queued"} \cup Settled
    PROVE  TypeOK'
BY DEF TypeOK, GoodTasks, TaskSet, ScreenSet

\* An answer that is sound keeps the types, and the question with the dialog.
LEMMA AnswerStep ==
    ASSUME TypeOK, NEW x, Sound(x, dialog), Takes(x), NEW ts, GoodTasks(ts), NEW m,
           NEW lost \in SUBSET Messages, Send(x, m, ts, lost), job' \in {"none", "queued"} \cup Settled
    PROVE  TypeOK'
BY SendTyped, TakesTyped, TypeFrom DEF Sound

\* The same for the question.
LEMMA AskStep ==
    ASSUME Linked(dialog, asked), NEW x, Sound(x, dialog), Takes(x)
    PROVE  Linked(dialog, asked)'
BY DEF Linked, Sound, Takes

-----------------------------------------------------------------------------
\* Screens and their tasks.

WritersIn(ts, p) == {t \in Tasks : ts[t].message = p}

\* Every message in progress has a task in ts, or is in the set.
Covered(ts, left) == \A p \in Messages : chat[p].busy => p \in left \/ WritersIn(ts, p) # {}

LEMMA ProgressIsCovered == ProgressMeansWork <=> Covered(tasks, orphaned)
BY DEF ProgressMeansWork, Covered, Writers, WritersIn

LEMMA BeyondWriters ==
    ASSUME NEW ts, NEW n \in Messages, NEW p \in Messages, p # n, WritersIn(ts, p) # {}
    PROVE  WritersIn(Beyond(ts, n), p) # {}
<1>1. PICK t \in Tasks : ts[t].message = p
    BY DEF WritersIn
<1>2. Beyond(ts, n)[t] = ts[t]
    BY <1>1 DEF Beyond
<1> QED BY <1>1, <1>2 DEF WritersIn

LEMMA SendNewCovers ==
    ASSUME TypeOK, NEW screen \in ScreenSet, ~screen.busy, NEW ts, NEW lost, Covered(ts, orphaned \cup lost),
           SendNew(screen, ts, lost)
    PROVE  ProgressMeansWork'
<1>1. CASE tasks' = ts /\ orphaned' = orphaned \cup lost /\ UNCHANGED chat
    BY <1>1 DEF Covered, ProgressMeansWork, Writers, WritersIn
<1>2. ASSUME NEW n \in Messages, chat' = [chat EXCEPT ![n] = screen], tasks' = Beyond(ts, n),
             orphaned' = (orphaned \cup lost) \ {n}
      PROVE  ProgressMeansWork'
    <2>1. ASSUME NEW p \in Messages, chat'[p].busy PROVE p \in orphaned' \/ WritersIn(tasks', p) # {}
        <3>1. p # n /\ chat[p].busy
            BY <1>2, <2>1, TypeParts
        <3> QED BY <1>2, <2>1, <3>1, BeyondWriters DEF Covered
    <2> QED BY <2>1 DEF ProgressMeansWork, Writers, WritersIn
<1> QED BY <1>1, <1>2 DEF SendNew

LEMMA EditCovers ==
    ASSUME TypeOK, NEW screen \in ScreenSet, NEW ts, NEW m, NEW lost \in SUBSET {m},
           Covered(ts, orphaned \cup lost), screen.busy => WritersIn(ts, m) # {}, Edit(screen, m, ts)
    PROVE  ProgressMeansWork'
<1>1. ASSUME NEW p \in Messages, chat'[p].busy PROVE p \in orphaned' \/ WritersIn(tasks', p) # {}
    <2>1. CASE p = m
        BY <1>1, <2>1, TypeParts DEF Edit
    <2>2. CASE p # m
        BY <1>1, <2>2, TypeParts DEF Edit, Covered
    <2> QED BY <2>1, <2>2
<1> QED BY <1>1 DEF ProgressMeansWork, Writers, WritersIn

LEMMA SendCovers ==
    ASSUME TypeOK, NEW x \in AnswerSet, NEW ts, NEW m, NEW lost \in SUBSET {m},
           Covered(ts, orphaned \cup (IF x.edit THEN lost ELSE {})), Send(x, m, ts, lost)
    PROVE  ProgressMeansWork'
<1>1. Screen(x.menu) \in ScreenSet /\ ~Screen(x.menu).busy
    BY DEF AnswerSet, Screen, ScreenSet
<1>2. CASE x.edit /\ Edit(Screen(x.menu), m, ts)
    <2>1. Covered(ts, orphaned \cup lost)
        BY <1>2
    <2> QED BY <1>1, <1>2, <2>1, EditCovers
<1>3. CASE SendNew(Screen(x.menu), ts, IF x.edit THEN lost ELSE {})
    BY <1>1, <1>3, SendNewCovers
<1> QED BY <1>2, <1>3 DEF Send

-----------------------------------------------------------------------------
\* The invariant and its steps.

BotInv == TypeOK /\ Linked(dialog, asked) /\ ProgressMeansWork

LEMMA Answered ==
    ASSUME BotInv, NEW x, Sound(x, dialog), Takes(x), NEW ts, GoodTasks(ts), NEW m,
           NEW lost \in SUBSET Messages, lost \subseteq {m},
           Covered(ts, orphaned \cup (IF x.edit THEN lost ELSE {})), Send(x, m, ts, lost),
           job' \in {"none", "queued"} \cup Settled
    PROVE  BotInv'
<1>1. TypeOK'
    BY AnswerStep DEF BotInv
<1>2. Linked(dialog, asked)'
    BY AskStep DEF BotInv
<1>3. ProgressMeansWork'
    BY SendCovers DEF BotInv, Sound
<1> QED BY <1>1, <1>2, <1>3 DEF BotInv

\* An answer of the loop: the tasks stay.
LEMMA LoopAnswers ==
    ASSUME BotInv, NEW x, Sound(x, dialog), Takes(x), NEW m, Send(x, m, tasks, {}),
           job' \in {"none", "queued"} \cup Settled
    PROVE  BotInv'
<1>1. Covered(tasks, orphaned \cup (IF x.edit THEN {} ELSE {}))
    BY ProgressIsCovered DEF BotInv, Covered
<1>2. GoodTasks(tasks)
    BY TypeParts DEF BotInv
<1> QED BY <1>1, <1>2, Answered

LEMMA JobType == BotInv => dialog \in Dialogs /\ groups \in SUBSET Groups /\ job \in {"none", "queued"} \cup Settled
BY DEF BotInv, TypeOK

LEMMA TappableIsOffered ==
    ASSUME TypeOK, NEW m \in Messages \cup {OutOfSight}, NEW b \in Tappable(m)
    PROVE  b \in Offered
<1>1. CASE m = OutOfSight
    BY <1>1 DEF Tappable
<1>2. CASE m # OutOfSight /\ b \in chat[m].menu
    BY <1>2, TypeParts DEF ScreenSet
<1>3. ASSUME m # OutOfSight, NEW t \in Writers(m), b = tasks[t].button PROVE b \in Offered
    <2>1. tasks[t] \in TaskSet /\ tasks[t] # Idle
        BY <1>3, TypeParts, IdleIsNone DEF Writers, GoodTasks
    <2> QED BY <1>3, <2>1 DEF TaskSet
<1> QED BY <1>1, <1>2, <1>3 DEF Tappable

LEMMA CommandStep == ASSUME BotInv, Command PROVE BotInv'
<1>1. PICK x \in CommandAnswers : Takes(x) /\ Send(x, OutOfSight, tasks, {})
    BY DEF Command
<1>0. PICK c \in Commands, g \in Groups : x \in handleMessage(dialog, groups, c, g)
    BY <1>1 DEF CommandAnswers
<1>2. Sound(x, dialog)
    BY <1>0, JobType, MessageSound DEF AllSound
<1>3. job' \in {"none", "queued"} \cup Settled
    BY JobType DEF Command
<1> QED BY <1>1, <1>2, <1>3, LoopAnswers

LEMMA TextStep == ASSUME BotInv, Text PROVE BotInv'
<1>1. PICK x \in handleMessage(dialog, groups, "", NoGroup) : Takes(x) /\ Send(x, OutOfSight, tasks, {})
    BY DEF Text
<1>2. Sound(x, dialog)
    BY JobType, PlainTextSound DEF AllSound
<1>3. job' \in {"none", "queued"} \cup Settled
    BY JobType DEF Text
<1> QED BY <1>1, <1>2, <1>3, LoopAnswers

LEMMA TapStep ==
    ASSUME BotInv, NEW m \in Messages \cup {OutOfSight}, Tap(m)
    PROVE  BotInv'
<1>1. PICK x \in ButtonAnswers(m) : Takes(x) /\ Send(x, m, tasks, {})
    BY DEF Tap
<1>0. PICK b \in Tappable(m) : x \in handleCallback(dialog, groups, b)
    BY <1>1 DEF ButtonAnswers
<1>2. b \in Offered
    BY TappableIsOffered DEF BotInv
<1>3. Sound(x, dialog)
    BY <1>0, <1>2, JobType, CallbackSound DEF AllSound
<1>4. job' \in {"none", "queued"} \cup Settled
    BY JobType DEF Tap
<1> QED BY <1>1, <1>3, <1>4, LoopAnswers

LEMMA AnswersStep == ASSUME BotInv, Answers PROVE BotInv'
<1>1. PICK x \in New(summarizeCollection(dialog)) : Takes(x) /\ Send(x, OutOfSight, tasks, {})
    BY DEF Answers
<1>2. Sound(x, dialog)
    BY JobType, FailsSound, NewSound DEF AllSound, summarizeCollection
<1>3. job' \in {"none", "queued"} \cup Settled
    BY DEF Answers
<1> QED BY <1>1, <1>2, <1>3, LoopAnswers

\* A result is written over the message of its task, or the message is given up.
LEMMA TaskEndsStep ==
    ASSUME BotInv, NEW t \in Tasks, TaskEnds(t)
    PROVE  BotInv'
<1>0. GoodTasks(tasks) /\ chat \in [Messages -> ScreenSet] /\ tasks[t] # Idle
    BY TypeParts DEF BotInv, TaskEnds
<1> DEFINE m == tasks[t].message
           ts == [tasks EXCEPT ![t] = Idle]
<1>1. PICK x \in handleCallback(dialog, groups, tasks[t].button) : Takes(x) /\ Send(Result(x), m, ts, Left(m))
    BY DEF TaskEnds
<1>2. tasks[t].button \in Offered
    BY <1>0 DEF GoodTasks, TaskSet
<1>3. Sound(x, dialog)
    BY <1>2, JobType, CallbackSound DEF AllSound
<1>4. Sound(Result(x), dialog) /\ Result(x).edit /\ Takes(Result(x))
    BY <1>1, <1>3 DEF Sound, AnswerSet, Result, Takes
<1>5. GoodTasks(ts)
    BY <1>0, WithoutGood
<1>6. Left(m) \in SUBSET Messages /\ Left(m) \subseteq {m}
    BY DEF Left
<1>7. Covered(ts, orphaned \cup (IF Result(x).edit THEN Left(m) ELSE {}))
    <2>1. ASSUME NEW p \in Messages, chat[p].busy, p \notin orphaned, p # m PROVE WritersIn(ts, p) # {}
        <3>1. PICK u \in Tasks : tasks[u].message = p
            BY <2>1 DEF BotInv, ProgressMeansWork, Writers
        <3>2. u # t
            BY <2>1, <3>1
        <3>3. ts[u] = tasks[u]
            BY <1>0, <3>2 DEF GoodTasks
        <3> QED BY <3>1, <3>3 DEF WritersIn
    <2>2. ASSUME NEW p \in Messages, chat[p].busy, p = m PROVE p \in Left(m)
        BY <2>2 DEF Left
    <2> QED BY <1>4, <2>1, <2>2 DEF Covered
<1>8. job' \in {"none", "queued"} \cup Settled
    BY JobType DEF TaskEnds
<1> HIDE DEF m, ts
<1> QED BY <1>1, <1>4, <1>5, <1>6, <1>7, <1>8, Answered

\* A task starts with its progress on the screen, or that progress is nobody's.
LEMMA TapAsyncStep ==
    ASSUME BotInv, NEW m \in Messages \cup {OutOfSight}, NEW b \in Tappable(m), TapAsync(m, b)
    PROVE  BotInv'
<1>1. PICK t \in Tasks : tasks[t] = Idle
          /\ SendProgress(Progress(progressMenu(b)), m, [tasks EXCEPT ![t] = [message |-> m, button |-> b]])
    BY DEF TapAsync
<1> DEFINE ts == [tasks EXCEPT ![t] = [message |-> m, button |-> b]]
           screen == Progress(progressMenu(b))
<1>2. GoodTasks(tasks) /\ chat \in [Messages -> ScreenSet] /\ TypeOK
    BY TypeParts DEF BotInv
<1>3. GoodTasks(ts)
    BY <1>2, TappableIsOffered, WithGood DEF TapAsync
<1>4. screen \in ScreenSet /\ screen.busy
    BY SmallMenus DEF Progress, progressMenu, ScreenSet
<1>5. Covered(ts, orphaned)
    <2>1. ASSUME NEW p \in Messages, chat[p].busy, p \notin orphaned PROVE WritersIn(ts, p) # {}
        <3>1. PICK u \in Tasks : tasks[u].message = p
            BY <2>1 DEF BotInv, ProgressMeansWork, Writers
        <3>2. u # t
            BY <1>1, <3>1, IdleIsNone
        <3>3. ts[u] = tasks[u]
            BY <1>2, <3>2 DEF GoodTasks
        <3> QED BY <3>1, <3>3 DEF WritersIn
    <2> QED BY <2>1 DEF Covered
<1>6. WritersIn(ts, m) # {}
    BY <1>2 DEF WritersIn, GoodTasks
<1>7. UNCHANGED <<dialog, groups, job, asked, beside>>
    BY DEF TapAsync
<1>8. dialog' \in Dialogs /\ groups' \subseteq Groups /\ asked' \in Questions /\ beside' \in Questions
      /\ job' \in {"none", "queued"} \cup Settled /\ Linked(dialog, asked)'
    BY <1>7 DEF BotInv, TypeOK, Linked
<1> HIDE DEF ts, screen
<1>9. /\ GoodTasks(tasks') /\ chat' \in [Messages -> ScreenSet] /\ orphaned' \subseteq Messages
      /\ ProgressMeansWork'
    <2>1. CASE Edit(screen, m, ts)
        <3>1. Covered(ts, orphaned \cup {})
            BY <1>5
        <3> QED BY <1>2, <1>3, <1>4, <1>6, <2>1, <3>1, EditTyped, EditCovers
    <2>2. CASE tasks' = ts /\ UNCHANGED <<chat, orphaned>>
        <3>1. ProgressMeansWork'
            BY <1>5, <2>2 DEF Covered, ProgressMeansWork, Writers, WritersIn
        <3> QED BY <1>2, <1>3, <2>2, <3>1 DEF TypeOK
    <2>3. ASSUME NEW n \in Messages, chat' = [chat EXCEPT ![n] = screen], tasks' = Beyond(ts, n),
                 orphaned' = orphaned \cup {n}
          PROVE  /\ GoodTasks(tasks') /\ chat' \in [Messages -> ScreenSet] /\ orphaned' \subseteq Messages
                 /\ ProgressMeansWork'
        <3>1. ASSUME NEW p \in Messages, chat'[p].busy PROVE p \in orphaned' \/ WritersIn(tasks', p) # {}
            <4>1. CASE p = n
                BY <2>3, <4>1
            <4>2. CASE p # n
                <5>1. chat[p].busy
                    BY <1>2, <2>3, <3>1, <4>2
                <5> QED BY <1>5, <2>3, <4>2, <5>1, BeyondWriters DEF Covered
            <4> QED BY <4>1, <4>2
        <3>2. ProgressMeansWork'
            BY <3>1 DEF ProgressMeansWork, Writers, WritersIn
        <3> QED BY <1>2, <1>3, <1>4, <2>3, <3>2, BeyondGood DEF TypeOK
    <2>4. CASE UNCHANGED <<chat, tasks, orphaned>>
        BY <1>2, <2>4 DEF BotInv, ProgressMeansWork, Writers, TypeOK
    <2> QED BY <1>1, <2>1, <2>2, <2>3, <2>4 DEF SendProgress, ts, screen
<1>10. TypeOK'
    BY <1>8, <1>9, TypeFrom
<1> QED BY <1>8, <1>9, <1>10 DEF BotInv

\* The job, and nothing else.
LEMMA JobStep ==
    ASSUME BotInv, UNCHANGED <<dialog, groups, chat, tasks, asked, beside, orphaned>>,
           job' \in {"none", "queued"} \cup Settled
    PROVE  BotInv'
BY DEF BotInv, TypeOK, Linked, ProgressMeansWork, Writers

LEMMA CrashStep == ASSUME BotInv, Crash PROVE BotInv'
<1>1. NoDialog \in Dialogs /\ Linked(NoDialog, NoText)
    BY ViewDialog DEF NoDialog, Linked
<1>2. GoodTasks(tasks') /\ chat' \in [Messages -> ScreenSet] /\ orphaned' \subseteq Messages
    BY TypeParts DEF BotInv, Crash, GoodTasks, TaskSet
<1>3. ProgressMeansWork'
    BY DEF Crash, ProgressMeansWork
<1>4. TypeOK'
    BY <1>1, <1>2, TypeFrom, Distinct DEF BotInv, TypeOK, Crash
<1> QED BY <1>1, <1>3, <1>4 DEF BotInv, Crash, Linked

LEMMA BotInit == Init => BotInv
<1> SUFFICES ASSUME Init PROVE BotInv
    OBVIOUS
<1>1. NoDialog \in Dialogs /\ Linked(NoDialog, NoText)
    BY ViewDialog DEF NoDialog, Linked
<1>2. NoScreen \in [menu : SUBSET Offered, busy : BOOLEAN] /\ ~NoScreen.busy
    BY DEF NoScreen, Screen
<1>3. ProgressMeansWork
    BY <1>2 DEF Init, ProgressMeansWork
<1>4. TypeOK
    BY <1>1, <1>2, Distinct DEF Init, TypeOK
<1> QED BY <1>1, <1>3, <1>4 DEF BotInv, Init

LEMMA BotStep == BotInv /\ [Next]_vars => BotInv'
<1> SUFFICES ASSUME BotInv, [Next]_vars PROVE BotInv'
    OBVIOUS
<1>1. CASE Command
    BY <1>1, CommandStep
<1>2. CASE Text
    BY <1>2, TextStep
<1>3. CASE \E m \in Messages \cup {OutOfSight} : Tap(m) \/ \E b \in Tappable(m) : TapAsync(m, b)
    BY <1>3, TapStep, TapAsyncStep
<1>4. CASE \E t \in Tasks : TaskEnds(t)
    BY <1>4, TaskEndsStep
<1>5. CASE StartGeneration
    BY <1>5, JobStep DEF StartGeneration
<1>6. CASE WorkerEnds
    BY <1>6, JobStep DEF WorkerEnds, Settled
<1>7. CASE waitForSummaryJob \/ PollFails
    BY <1>7, AnswersStep DEF waitForSummaryJob, PollFails
<1>8. CASE Crash
    BY <1>8, CrashStep
<1>9. CASE UNCHANGED vars
    BY <1>9, JobStep, JobType DEF vars
<1> QED BY <1>1, <1>2, <1>3, <1>4, <1>5, <1>6, <1>7, <1>8, <1>9 DEF Next

\* Types, the bond of dialog and question, and the tasks of the screens, together.
LEMMA Invariant == Spec => []BotInv
BY BotInit, BotStep, PTL DEF Spec

\* Every state is well formed, whatever is tapped, typed or sent twice.
THEOREM TypeCorrect == Spec => []TypeOK
BY Invariant, PTL DEF BotInv

LEMMA TookIsTook ==
    ASSUME NEW d \in Dialogs, NEW S, NEW q, AllSound(S, d), NEW x \in Took(S, q)
    PROVE  x.took = q
BY DEF Took, AllSound, Sound, AnswerSet

LEMMA AgainTookNothing ==
    ASSUME NEW d, NEW menu, NEW q, NEW x \in Again(d, menu, q)
    PROVE  x.took = NoText
BY DEF Again, Answer

\* What a text is taken for is the question of the dialog, or nothing.
LEMMA TextTaken ==
    ASSUME TypeOK, Linked(dialog, asked), NEW x \in handleDialogInput(dialog, groups)
    PROVE  x.took \in {NoText, asked}
<1>1. dialog \in Dialogs /\ groups \in SUBSET Groups
    BY DEF TypeOK
<1>2. CASE dialog.view = "auth_phone"
    <2>1. x \in submitPhone(dialog) /\ Linked(dialog, Phone) /\ asked = Phone
        BY <1>2 DEF handleDialogInput, Linked, Phone
    <2>2. CASE x \in Again(dialog, BackMenu, Phone)
        BY <2>2, AgainTookNothing
    <2>3. CASE x \in Took(Authorizes(dialog) \cup Again(dialog, SettingsMenu, Phone), Phone)
        <3>1. AllSound(Again(dialog, SettingsMenu, Phone), dialog)
            BY <1>1, <2>1, AgainSound, PlainMenus, Distinct DEF Phone
        <3>2. AllSound(Authorizes(dialog) \cup Again(dialog, SettingsMenu, Phone), dialog)
            BY <1>1, <3>1, AuthSound, BothSound
        <3> QED BY <1>1, <2>1, <2>3, <3>2, TookIsTook
    <2> QED BY <2>1, <2>2, <2>3 DEF submitPhone
<1>3. CASE dialog.view = "auth_code"
    BY <1>3 DEF handleDialogInput, submitCode, Fails, Answer
<1>4. CASE dialog.view = "auth_password"
    <2>1. x \in submitPassword(dialog) /\ asked = Password
        BY <1>4 DEF handleDialogInput, Linked, Password
    <2>2. CASE x \in Again(dialog, BackMenu, Password)
        BY <2>2, AgainTookNothing
    <2>3. CASE x \in Took(Authorizes(dialog), Password)
        BY <1>1, <2>1, <2>3, AuthSound, TookIsTook
    <2> QED BY <2>1, <2>2, <2>3 DEF submitPassword
<1>5. CASE dialog.view = "add_public_channel"
    <2> DEFINE again == Again(dialog, publicChannelBackMenu(dialog.group, dialog.return), <<"channel", dialog.group>>)
               added == addPublicChannel(dialog, groups, dialog.group, dialog.return)
    <2>1. x \in Took(added \cup again, <<"channel", dialog.group>>) /\ asked = <<"channel", dialog.group>>
        BY <1>5 DEF handleDialogInput, addPublicChannelFromDialog, Linked
    <2>2. dialog.group \in Groups /\ dialog.return \in Returns
        BY <1>1, <1>5, DialogParts
    <2>3. AllSound(added, dialog)
        BY <1>1, <2>2, ChannelSound
    <2>4. AllSound(again, dialog)
        BY <1>1, <1>5, <2>2, AgainSound, SmallMenus, Distinct DEF Linked
    <2> HIDE DEF again, added
    <2>5. AllSound(added \cup again, dialog)
        BY <2>3, <2>4, BothSound
    <2> QED BY <1>1, <2>1, <2>5, TookIsTook
<1>6. CASE dialog.view \notin {"auth_phone", "auth_code", "auth_password", "add_public_channel"}
    BY <1>6 DEF handleDialogInput, showHome, Shows, Answer
<1> QED BY <1>2, <1>3, <1>4, <1>5, <1>6

\* A text is given to the login or to a group only as the answer to the bot's last question,
\* or to the one of the open dialog when a later question was not the dialog's.
THEOREM TextsAreAnswers == Spec => []TextAnswersQuestion
<1>1. BotInv => TextAnswersQuestion
    <2> SUFFICES ASSUME BotInv, NEW x \in handleDialogInput(dialog, groups)
                 PROVE  x.took \in {NoText, LastQuestion} \/ (beside # NoText /\ x.took = asked)
        BY DEF TextAnswersQuestion
    <2>1. x.took \in {NoText, asked}
        BY TextTaken DEF BotInv
    <2> QED BY <2>1 DEF LastQuestion
<1> QED BY <1>1, Invariant, PTL

\* Work that a screen shows as under way has a task that will write over it.
THEOREM WorkIsReal == Spec => []ProgressMeansWork
BY Invariant, PTL DEF BotInv
=============================================================================
