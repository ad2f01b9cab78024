----------------------- MODULE TelegramSessionProofs -----------------------
(***************************************************************************)
(* Proofs about the Telegram session: types, the login a deleted session   *)
(* needs to come back, what a row that says connected stands on, what a    *)
(* deletion leaves, and the groups a sync makes and fills.                 *)
(***************************************************************************)
EXTENDS TelegramSessionProps, TLAPS

GroupsTyped == GroupType /\ \A g \in GroupIds : Exists(g) => g <= created

StepsTyped == /\ WorkType
              /\ alone \subseteq Requests
              /\ edited \subseteq Requests
              /\ overtaken \subseteq Requests

RestTyped == /\ raced \subseteq GroupIds
             /\ spoiled \in BOOLEAN
             /\ loggedOut \in BOOLEAN
             /\ events \in Nat

LEMMA TypeParts ==
    TypeOK <=> row \in Statuses /\ client \in Client /\ GroupsTyped /\ StepsTyped /\ RestTyped
BY DEF TypeOK, GroupsTyped, StepsTyped, RestTyped, GhostType

LEMMA TypeAfter ==
    row' \in Statuses /\ client' \in Client /\ GroupsTyped' /\ StepsTyped' /\ RestTyped' => TypeOK'
BY DEF TypeOK, GroupsTyped, StepsTyped, RestTyped, GhostType

-----------------------------------------------------------------------------
\* The client.

LEMMA ClientParts ==
    ASSUME NEW c \in Client
    PROVE  /\ c.files \in {"none", "blank", "saved"} /\ c.td \in Stages
           /\ c.handle \in BOOLEAN /\ c.authState \in AuthStates
           /\ c.queued \in BOOLEAN /\ c.cached \in BOOLEAN
BY DEF Client

LEMMA MkdirType == ASSUME NEW c \in Client PROVE MkdirAll(c) \in Client
BY DEF MkdirAll, Client

LEMMA HandleType == ASSUME NEW c \in Client PROVE ensureHandle(c) \in Client /\ ensureHandle(c).handle
BY DEF ensureHandle, Client, Stages, AuthStates

LEMMA UpdateType == ASSUME NEW c \in Client PROVE updateAuthorizationFrom(c) \in Client
BY DEF updateAuthorizationFrom, Client, AuthStates

LEMMA SendType == ASSUME NEW c \in Client PROVE sendAndWait(c) \in Client
BY HandleType, UpdateType DEF sendAndWait

LEMMA StartedType == ASSUME NEW c \in Client PROVE Started(c) \in Client
BY HandleType, UpdateType DEF Started, advanceAuthorization, waitAuthorizationState

LEMMA AcceptsStages == ASSUME NEW i, NEW t \in Stages PROVE Accepts(i, t) \subseteq Stages
BY DEF Accepts, Stages

LEMMA AuthType == ASSUME NEW c \in Client, NEW t \in Stages
                  PROVE  submitAuth(c, t) \in Client /\ Unanswered(c, t) \in Client
<1>1. Started(c) \in Client
    BY StartedType
<1>2. [Started(c) EXCEPT !.td = t] \in Client
    BY <1>1 DEF Client
<1>3. sendAndWait([Started(c) EXCEPT !.td = t]) \in Client
    BY <1>2, SendType
<1>4. submitAuth(c, t) \in Client
    BY <1>3, UpdateType DEF submitAuth, advanceAuthorization, waitAuthorizationState
<1>5. Unanswered(c, t) \in Client
    BY <1>1 DEF Unanswered, Client
<1> QED BY <1>4, <1>5

LEMMA StoppedType == ASSUME NEW c \in Client PROVE Stopped(c) \in Client
BY DEF Stopped, Client, AuthStates, Stages

LEMMA FoldersType == ASSUME NEW c \in Client PROVE ListFolders(c) \subseteq Client
<1> SUFFICES ASSUME NEW d \in ListFolders(c) PROVE d \in Client
    OBVIOUS
<1>1. CASE c.cached
    BY <1>1 DEF ListFolders
<1>2. CASE ~c.cached
    <2>1. \A h \in {c, [c EXCEPT !.queued = FALSE]} : h \in Client /\ [h EXCEPT !.cached = TRUE] \in Client
        BY DEF Client
    <2> QED BY <1>2, <2>1 DEF ListFolders, waitChatFolders
<1> QED BY <1>1, <1>2

LEMMA LoggedOutType == ASSUME NEW c \in Client PROVE LoggedOut(c) \in Client
BY DEF LoggedOut, Client, Stages

LEMMA NewClientType ==
    ASSUME NEW f \in {"none", "blank", "saved"}, NEW t \in Stages
    PROVE  NewNativeClient(f, t) \in Client
BY DEF NewNativeClient, Client, AuthStates

-----------------------------------------------------------------------------
\* Steps of one request.

LEMMA NoLocalsTyped == NoLocals \in Locals
BY DEF NoLocals, Locals, AuthStates

LEMMA GoesTyped ==
    ASSUME StepsTyped, NEW r \in Requests, NEW l \in Control, NEW x \in Locals, GoesWith(r, l, x),
           l = "resolve" => x.target # 0
    PROVE  /\ StepsTyped'
           /\ pc'[r] = l /\ local'[r] = x
           /\ \A q \in Requests \ {r} : pc'[q] = pc[q] /\ local'[q] = local[q]
           /\ alone' = alone /\ edited' = edited /\ overtaken' = overtaken
BY DEF StepsTyped, WorkType, GoesWith

LEMMA BeginsTyped ==
    ASSUME StepsTyped, NEW r \in Requests, NEW l \in Control, NEW x \in Locals, Begins(r, l, x),
           l # "resolve"
    PROVE  /\ StepsTyped'
           /\ ~Busy(r) /\ pc'[r] = l /\ local'[r] = x
           /\ \A q \in Requests \ {r} : pc'[q] = pc[q] /\ local'[q] = local[q]
           /\ \/ alone' = {}
              \/ alone' = {r} /\ \A q \in Requests : ~Busy(q)
           /\ edited' = edited /\ overtaken' = overtaken
BY DEF StepsTyped, WorkType, Begins

LEMMA EndsTyped ==
    ASSUME StepsTyped, NEW r \in Requests, Ends(r)
    PROVE  /\ StepsTyped'
           /\ pc'[r] = "idle" /\ local'[r] = NoLocals
           /\ \A q \in Requests \ {r} : pc'[q] = pc[q] /\ local'[q] = local[q]
           /\ alone' = alone \ {r} /\ edited' = edited \ {r} /\ overtaken' = overtaken \ {r}
BY NoLocalsTyped DEF StepsTyped, WorkType, Ends, Control

LEMMA StepsStay ==
    ASSUME StepsTyped, UNCHANGED stepVars PROVE StepsTyped'
BY DEF stepVars, StepsTyped, WorkType

LEMMA ApartTyped ==
    ASSUME GroupsTyped, RestTyped, Apart PROVE GroupsTyped' /\ RestTyped'
BY DEF Apart, groupVars, restVars, GroupsTyped, GroupType, RestTyped, Exists

LEMMA GroupsStay ==
    ASSUME GroupsTyped, UNCHANGED groupVars PROVE GroupsTyped'
BY DEF groupVars, GroupsTyped, GroupType, Exists

\* What a request holds.
LEMMA LocalParts ==
    ASSUME StepsTyped, NEW r \in Requests
    PROVE  /\ pc[r] \in Control /\ local[r] \in Locals
           /\ local[r].seen \in AuthStates /\ local[r].target \in GroupIds \cup {0}
           /\ local[r].folders \in {{}, Folders}
           /\ local[r].known \in [Names -> GroupIds \cup {0}]
           /\ local[r].todo \subseteq Folders
           /\ local[r].links \subseteq GroupIds \X Chats
           /\ pc[r] = "resolve" => local[r].target # 0
BY DEF StepsTyped, WorkType, Locals

-----------------------------------------------------------------------------
\* Types.

LEMMA InitTyped == Init => TypeOK
<1> SUFFICES ASSUME Init PROVE TypeOK
    OBVIOUS
<1>1. client \in Client
    BY NewClientType DEF Init, Stages
<1>2. GroupsTyped
    BY SourceGroupsAssumption DEF Init, GroupsInit, GroupsTyped, GroupType, Exists
<1>3. StepsTyped
    BY NoLocalsTyped DEF Init, StepsTyped, WorkType, Control
<1> QED BY <1>1, <1>2, <1>3, TypeParts DEF Init, RestTyped, Statuses

LEMMA StatusType == ASSUME NEW a PROVE sessionStatus(a) \in Statuses \ {"none"}
BY DEF sessionStatus, Statuses

LEMMA SessionStepTyped ==
    ASSUME TypeOK, NEW r \in Requests, SessionStep(r) PROVE TypeOK'
<1>0. /\ row \in Statuses /\ client \in Client /\ GroupsTyped /\ StepsTyped /\ RestTyped
      /\ {"ask", "askLogin", "save", "saveLogin", "forget", "remove"} \subseteq Control
    BY TypeParts DEF Control, Login, Delete
<1>1. CASE StartClient(r)
    <2>1. client' \in Client /\ row' = row /\ Apart /\ GoesWith(r, "askLogin", local[r])
        BY <1>0, <1>1, StartedType DEF StartClient, Goes
    <2> QED BY <1>0, <2>1, GoesTyped, ApartTyped, LocalParts, TypeAfter
<1>2. CASE SubmitToClient(r)
    <2>1. row' = row /\ Apart /\ GoesWith(r, "ask", local[r])
        BY <1>2 DEF SubmitToClient, Goes
    <2>2. PICK t \in Accepts(pc[r], Started(client).td) : client' = submitAuth(client, t)
        BY <1>2 DEF SubmitToClient
    <2>3. Started(client).td \in Stages
        BY <1>0, StartedType, ClientParts
    <2>4. client' \in Client
        BY <1>0, <2>2, <2>3, AcceptsStages, AuthType
    <2> QED BY <1>0, <2>1, <2>4, GoesTyped, ApartTyped, LocalParts, TypeAfter
<1>3. CASE SubmitRefused(r)
    <2>1. client' \in Client /\ row' = row /\ Apart /\ Ends(r)
        BY <1>0, <1>3, StartedType, SendType DEF SubmitRefused
    <2> QED BY <1>0, <2>1, EndsTyped, ApartTyped, TypeAfter
<1>4. CASE AskState(r)
    <2>1. client' \in Client /\ row' = row /\ Apart
        BY <1>0, <1>4, StartedType DEF AskState
    <2>2. PICK x : x = [local[r] EXCEPT !.seen = client'.authState]
        OBVIOUS
    <2>3. x \in Locals
        BY <1>0, <2>1, <2>2, LocalParts, ClientParts DEF Locals
    <2>4. \E l \in Control \ {"resolve"} : GoesWith(r, l, x)
        BY <1>0, <1>4, <2>2 DEF AskState
    <2> QED BY <1>0, <2>1, <2>3, <2>4, GoesTyped, ApartTyped, TypeAfter
<1>5. CASE SaveState(r)
    <2>1. row' \in Statuses /\ client' = client /\ UNCHANGED groupVars /\ Ends(r)
        BY <1>0, <1>5, StatusType DEF SaveState
    <2>2. RestTyped'
        BY <1>0, <1>5 DEF SaveState, Settles, RestTyped
    <2> QED BY <1>0, <2>1, <2>2, EndsTyped, GroupsStay, TypeAfter
<1>6. CASE StopClient(r)
    <2>1. client' \in Client /\ row' = row /\ Apart
        BY <1>0, <1>6, StoppedType DEF StopClient
    <2>2. GoesWith(r, "forget", local[r]) \/ Ends(r)
        BY <1>6 DEF StopClient, Goes
    <2>3. StepsTyped'
        BY <1>0, <2>2, GoesTyped, EndsTyped, LocalParts
    <2> QED BY <1>0, <2>1, <2>3, ApartTyped, TypeAfter
<1>7. CASE DeleteRow(r)
    <2>1. row' \in Statuses /\ client' = client /\ UNCHANGED groupVars /\ GoesWith(r, "remove", local[r])
        BY <1>7 DEF DeleteRow, Goes, Statuses
    <2>2. RestTyped'
        BY <1>0, <1>7 DEF DeleteRow, Settles, RestTyped
    <2> QED BY <1>0, <2>1, <2>2, GoesTyped, GroupsStay, LocalParts, TypeAfter
<1>8. CASE RemoveAll(r)
    <2>1. row' = row /\ client' \in Client /\ UNCHANGED groupVars /\ Ends(r)
        BY <1>0, <1>8 DEF RemoveAll, Client
    <2>2. RestTyped'
        BY <1>0, <1>8 DEF RemoveAll, RestTyped
    <2> QED BY <1>0, <2>1, <2>2, EndsTyped, GroupsStay, TypeAfter
<1> QED BY <1>1, <1>2, <1>3, <1>4, <1>5, <1>6, <1>7, <1>8 DEF SessionStep

LEMMA ArrivesTyped ==
    ASSUME TypeOK, NEW r \in Requests, Arrives(r) PROVE TypeOK'
<1>0. /\ row \in Statuses /\ client \in Client /\ GroupsTyped /\ StepsTyped /\ RestTyped
      /\ {"start", "phone", "code", "password", "ask", "stop", "check"} \subseteq Control
    BY TypeParts DEF Control, Login, Delete, Syncing
<1>1. Apart /\ row' = row
    BY DEF Arrives, Start, Submit, Status, DeleteSession, Sync, AddPublicChannel, Connected, sessionVars
<1>2. client' \in Client
    <2>1. CASE Start(r)
        BY <1>0, <2>1, MkdirType DEF Start
    <2>2. CASE ~Start(r)
        BY <1>0, <2>2 DEF Arrives, Submit, Status, DeleteSession, Sync, AddPublicChannel, Connected, sessionVars
    <2> QED BY <2>1, <2>2
<1>3. \E l \in Control \ {"resolve"}, x \in Locals : Begins(r, l, x)
    <2>1. CASE \E t \in GroupIds \cup {0} : Connected(r, t)
        <3>1. PICK t \in GroupIds \cup {0} : Connected(r, t)
            BY <2>1
        <3>2. [NoLocals EXCEPT !.target = t] \in Locals
            BY NoLocalsTyped DEF Locals
        <3> QED BY <1>0, <3>1, <3>2 DEF Connected
    <2>2. CASE ~\E t \in GroupIds \cup {0} : Connected(r, t)
        BY <1>0, <2>2, NoLocalsTyped DEF Arrives, Start, Submit, Status, DeleteSession, Sync, AddPublicChannel
    <2> QED BY <2>1, <2>2
<1> QED BY <1>0, <1>1, <1>2, <1>3, BeginsTyped, ApartTyped, TypeAfter

LEMMA NewGroupTyped ==
    ASSUME TypeOK, NEW r \in Requests, NEW f \in Folders, NEW x \in Locals, NewGroup(r, f, x)
    PROVE  /\ GroupsTyped' /\ StepsTyped' /\ RestTyped' /\ UNCHANGED sessionVars
           /\ created + 1 \in GroupIds /\ created' = created + 1 /\ created \in Nat
           /\ ~Exists(created') /\ name' = [name EXCEPT ![created'] = NameOf[f]]
<1>0. GroupsTyped /\ StepsTyped /\ RestTyped /\ MaxGroups \in Nat /\ NameOf[f] \in Names
    BY TypeParts, SourceGroupsAssumption, SessionAssumption
<1>1. created \in Nat /\ created + 1 \in GroupIds /\ created' = created + 1
    BY <1>0 DEF NewGroup, Create, GroupsTyped, GroupType, GroupIds
<1>2. ~Exists(created + 1)
    BY <1>0, <1>1 DEF GroupsTyped
<1>3. name' = [name EXCEPT ![created + 1] = NameOf[f]]
    BY DEF NewGroup, Create
<1>4. GroupsTyped'
    <2>1. GroupType'
        BY <1>0, <1>1, <1>3 DEF NewGroup, Create, GroupsTyped, GroupType, GroupIds
    <2>2. ASSUME NEW g \in GroupIds, name'[g] # NoName PROVE g <= created'
        <3>1. g = created + 1 \/ Exists(g)
            BY <1>0, <1>3, <2>2 DEF GroupsTyped, GroupType, Exists
        <3> QED BY <1>0, <1>1, <3>1 DEF GroupsTyped, GroupIds
    <2> QED BY <2>1, <2>2 DEF GroupsTyped, Exists
<1>5. StepsTyped'
    BY <1>0 DEF NewGroup, NextFolder, Overtakes, Filling, StepsTyped, WorkType
<1>6. RestTyped'
    BY <1>0, <1>1 DEF NewGroup, restVars, RestTyped
<1>7. ~Exists(created')
    BY <1>1, <1>2, Zenon DEF Exists
<1> QED BY <1>0, <1>1, <1>3, <1>4, <1>5, <1>6, <1>7 DEF NewGroup

\* What a sync puts into its variables.
LEMMA NewLocals ==
    ASSUME TypeOK, NEW x \in Locals, NEW f \in Folders, NEW g \in GroupIds, NEW k \in [Names -> GroupIds \cup {0}]
    PROVE  /\ [x EXCEPT !.known = k, !.todo = x.folders] \in Locals
           /\ [x EXCEPT !.links = Links(g, f), !.todo = @ \ {f}] \in Locals
           /\ [x EXCEPT !.known[NameOf[f]] = g, !.links = Links(g, f), !.todo = @ \ {f}] \in Locals
<1>1. Links(g, f) \subseteq GroupIds \X Chats
    BY TypeParts DEF Links, GroupsTyped, GroupType
<1>2. NameOf[f] \in Names
    BY SessionAssumption
<1>3. /\ x.known \in [Names -> GroupIds \cup {0}] /\ x.folders \subseteq Folders /\ x.todo \subseteq Folders
      /\ x.links \subseteq GroupIds \X Chats
    BY DEF Locals
<1>4. [x.known EXCEPT ![NameOf[f]] = g] \in [Names -> GroupIds \cup {0}]
    BY <1>3
<1>5. [x EXCEPT !.known = k, !.todo = x.folders] \in Locals
    BY <1>3 DEF Locals
<1>6. [x EXCEPT !.links = Links(g, f), !.todo = @ \ {f}] \in Locals
    BY <1>1, <1>3 DEF Locals
<1>7. [x EXCEPT !.known[NameOf[f]] = g, !.links = Links(g, f), !.todo = @ \ {f}] \in Locals
    BY <1>1, <1>3, <1>4 DEF Locals
<1> QED BY <1>5, <1>6, <1>7

LEMMA AllChatsType == AllChats \subseteq Chats
<1>1. \A f \in Folders : Content[f] \subseteq Chats
    BY SessionAssumption
<1>2. ASSUME NEW c \in UNION {Content[f] : f \in Folders} PROVE c \in Chats
    BY <1>1
<1>3. Channels \subseteq Chats
    BY SessionAssumption
<1> QED BY <1>2, <1>3 DEF AllChats

LEMMA UpsertTyped ==
    ASSUME GroupsTyped, RestTyped, NEW cs \in SUBSET Chats, UpsertMany(cs) \/ catalog' = catalog,
           UNCHANGED <<name, created, members, own, raced, restVars>>
    PROVE  GroupsTyped' /\ RestTyped'
<1>1. catalog' = catalog \cup cs \/ catalog' = catalog
    BY DEF UpsertMany
<1>2. catalog' \subseteq Chats
    BY <1>1 DEF GroupsTyped, GroupType
<1> QED BY <1>2 DEF restVars, GroupsTyped, GroupType, RestTyped, Exists

LEMMA AddTyped ==
    ASSUME GroupsTyped, RestTyped, NEW m \in GroupIds \X Chats, AddChat(m[1], m[2]) \/ members' = members,
           UNCHANGED <<name, created, catalog, own, raced, restVars>>
    PROVE  GroupsTyped' /\ RestTyped'
<1>1. m = <<m[1], m[2]>> /\ m[1] \in GroupIds /\ m[2] \in Chats
    OBVIOUS
<1>2. members' \subseteq GroupIds \X Chats
    BY <1>1 DEF AddChat, GroupsTyped, GroupType
<1> QED BY <1>2 DEF restVars, GroupsTyped, GroupType, RestTyped, Exists

LEMMA NamedFolders ==
    ASSUME NEW r \in Requests, local[r] \in Locals, SyncFolders(r)
    PROVE  \E x \in Locals : GoesWith(r, "chats", x) /\ pc[r] = "folders"
<1>1. PICK fs \in {{}, Folders} : GoesWith(r, "chats", [local[r] EXCEPT !.folders = fs])
    BY DEF SyncFolders
<1>2. [local[r] EXCEPT !.folders = fs] \in Locals
    BY DEF Locals
<1> QED BY <1>1, <1>2 DEF SyncFolders

LEMMA SyncStepTyped ==
    ASSUME TypeOK, NEW r \in Requests, SyncStep(r) PROVE TypeOK'
<1>0. /\ row \in Statuses /\ client \in Client /\ GroupsTyped /\ StepsTyped /\ RestTyped
      /\ {"folders", "chats", "groups", "fill", "resolve", "attach"} \subseteq Control
    BY TypeParts DEF Control, Syncing
<1>1. CASE readyClient(r)
    <2>1. client' \in Client /\ row' = row /\ Apart
        BY <1>0, <1>1, StartedType DEF readyClient
    <2>2. Ends(r) \/ \E l \in Control : GoesWith(r, l, local[r]) /\ (l = "resolve" => local[r].target # 0)
        BY <1>0, <1>1 DEF readyClient, Goes
    <2>3. StepsTyped'
        BY <1>0, <2>2, GoesTyped, EndsTyped, LocalParts
    <2> QED BY <1>0, <2>1, <2>3, ApartTyped, TypeAfter
<1>2. CASE SyncFolders(r)
    <2>1. client' \in Client /\ row' = row /\ Apart
        BY <1>0, <1>2, FoldersType DEF SyncFolders
    <2>2. \E x \in Locals : GoesWith(r, "chats", x)
        BY <1>0, <1>2, NamedFolders, LocalParts
    <2> QED BY <1>0, <2>1, <2>2, GoesTyped, ApartTyped, TypeAfter
<1>3. CASE SyncChats(r)
    <2>1. client' \in Client /\ row' = row
        BY <1>0, <1>3, SendType DEF SyncChats, Stores, loadChats
    <2>2. Ends(r) \/ GoesWith(r, "groups", local[r])
        BY <1>3 DEF SyncChats, Stores, Goes
    <2>3. StepsTyped'
        BY <1>0, <2>2, GoesTyped, EndsTyped, LocalParts
    <2>4. GroupsTyped' /\ RestTyped'
        BY <1>0, <1>3, AllChatsType, UpsertTyped DEF SyncChats, Stores
    <2> QED BY <1>0, <2>1, <2>3, <2>4, TypeAfter
<1>4. CASE ListGroups(r)
    <2>1. client' \in Client /\ row' \in Statuses /\ Apart
        BY <1>0, <1>4 DEF ListGroups, sessionVars
    <2>2. \E x \in Locals : GoesWith(r, "fill", x)
        <3>1. PICK k \in [Names -> GroupIds \cup {0}] :
                  GoesWith(r, "fill", [local[r] EXCEPT !.known = k, !.todo = local[r].folders])
            BY <1>4 DEF ListGroups
        <3>2. [local[r] EXCEPT !.known = k, !.todo = local[r].folders] \in Locals
            <4>1. local[r].folders \subseteq Folders /\ local[r] \in Locals
                BY <1>0, LocalParts
            <4> QED BY <4>1 DEF Locals
        <3> QED BY <3>1, <3>2
    <2> QED BY <1>0, <2>1, <2>2, GoesTyped, ApartTyped, TypeAfter
<1>5. CASE \E f \in Folders : KnownGroup(r, f)
    <2>1. PICK f \in Folders : KnownGroup(r, f)
        BY <1>5
    <2>2. client' \in Client /\ row' \in Statuses /\ Apart
        BY <1>0, <2>1 DEF KnownGroup, sessionVars
    <2>3. PICK g : g = local[r].known[NameOf[f]]
        OBVIOUS
    <2>4. g \in GroupIds
        <3>1. NameOf[f] \in Names
            BY SessionAssumption
        <3> QED BY <1>0, <2>1, <2>3, <3>1, LocalParts DEF KnownGroup
    <2>5. GoesWith(r, "fill", [local[r] EXCEPT !.links = Links(g, f), !.todo = @ \ {f}])
        BY <2>1, <2>3 DEF KnownGroup
    <2>6. [local[r] EXCEPT !.links = Links(g, f), !.todo = @ \ {f}] \in Locals
        BY <1>0, <2>4, LocalParts, NewLocals
    <2> QED BY <1>0, <2>2, <2>5, <2>6, GoesTyped, ApartTyped, TypeAfter
<1>6. CASE \E f \in Folders : FolderGroup(r, f)
    <2>1. PICK f \in Folders : FolderGroup(r, f)
        BY <1>6
    <2>2. PICK g : g = created'
        OBVIOUS
    <2>3. NewGroup(r, f, [local[r] EXCEPT !.known[NameOf[f]] = g, !.links = Links(g, f), !.todo = @ \ {f}])
        BY <2>1, <2>2 DEF FolderGroup
    <2>4. g \in GroupIds
        BY <1>0, <2>2, <2>3, SourceGroupsAssumption DEF NewGroup, Create, GroupsTyped, GroupType, GroupIds
    <2>5. [local[r] EXCEPT !.known[NameOf[f]] = g, !.links = Links(g, f), !.todo = @ \ {f}] \in Locals
        BY <1>0, <2>4, LocalParts, NewLocals
    <2> QED BY <1>0, <2>3, <2>5, NewGroupTyped, TypeAfter DEF sessionVars
<1>7. CASE CreateFails(r)
    <2>1. client' \in Client /\ row' \in Statuses /\ Apart /\ Ends(r)
        BY <1>0, <1>7 DEF CreateFails, sessionVars
    <2> QED BY <1>0, <2>1, EndsTyped, ApartTyped, TypeAfter
<1>8. CASE AddFolderChat(r)
    <2>1. PICK m \in local[r].links :
              IF Exists(m[1]) THEN /\ AddChat(m[1], m[2])
                                   /\ GoesWith(r, "fill", [local[r] EXCEPT !.links = @ \ {m}])
              ELSE members' = members /\ Ends(r)
        BY <1>8 DEF AddFolderChat
    <2>2. m \in GroupIds \X Chats
        BY <1>0, LocalParts
    <2>3. GroupsTyped' /\ RestTyped'
        BY <1>0, <1>8, <2>1, <2>2, AddTyped DEF AddFolderChat
    <2>4. [local[r] EXCEPT !.links = @ \ {m}] \in Locals
        BY <1>0, LocalParts DEF Locals
    <2>5. StepsTyped'
        BY <1>0, <2>1, <2>4, GoesTyped, EndsTyped
    <2> QED BY <1>0, <1>8, <2>3, <2>5, TypeAfter DEF AddFolderChat, sessionVars
<1>9. CASE SaveConnection(r)
    <2>1. client' \in Client /\ row' \in Statuses /\ Apart /\ Ends(r)
        BY <1>0, <1>9 DEF SaveConnection, Statuses
    <2> QED BY <1>0, <2>1, EndsTyped, ApartTyped, TypeAfter
<1>10. CASE ResolvePublicChat(r)
    <2>1. client' \in Client /\ row' = row
        BY <1>0, <1>10, SendType DEF ResolvePublicChat
    <2>2. CASE /\ Exists(local[r].target)
               /\ \E c \in Channels :
                     /\ UpsertMany({c})
                     /\ GoesWith(r, "attach", [local[r] EXCEPT !.links = {<<local[r].target, c>>}])
        <3>1. PICK c \in Channels : /\ UpsertMany({c})
                                    /\ GoesWith(r, "attach", [local[r] EXCEPT !.links = {<<local[r].target, c>>}])
            BY <2>2
        <3>2. c \in Chats
            BY SessionAssumption
        <3>3. local[r].target \in GroupIds
            BY <1>0, <1>10, LocalParts DEF ResolvePublicChat
        <3>4. GroupsTyped' /\ RestTyped'
            BY <1>0, <1>10, <3>1, <3>2, UpsertTyped DEF ResolvePublicChat
        <3>5. [local[r] EXCEPT !.links = {<<local[r].target, c>>}] \in Locals
            BY <1>0, <3>2, <3>3, LocalParts DEF Locals
        <3> QED BY <1>0, <2>1, <3>1, <3>4, <3>5, GoesTyped, TypeAfter
    <2>3. CASE catalog' = catalog /\ Ends(r)
        <3>1. GroupsTyped' /\ RestTyped'
            BY <1>0, <1>10, <2>3, UpsertTyped DEF ResolvePublicChat
        <3> QED BY <1>0, <2>1, <2>3, <3>1, EndsTyped, TypeAfter
    <2> QED BY <1>10, <2>2, <2>3 DEF ResolvePublicChat
<1>11. CASE AttachChannel(r)
    <2>1. PICK m \in local[r].links : AddChat(m[1], m[2]) \/ members' = members
        BY <1>11 DEF AttachChannel
    <2>2. m \in GroupIds \X Chats
        BY <1>0, LocalParts
    <2>3. GroupsTyped' /\ RestTyped' /\ Ends(r)
        BY <1>0, <1>11, <2>1, <2>2, AddTyped DEF AttachChannel
    <2> QED BY <1>0, <1>11, <2>3, EndsTyped, TypeAfter DEF AttachChannel, sessionVars
<1> QED BY <1>1, <1>2, <1>3, <1>4, <1>5, <1>6, <1>7, <1>8, <1>9, <1>10, <1>11 DEF SyncStep

LEMMA OthersTyped ==
    ASSUME TypeOK, \/ OwnerNames \/ OwnerEdits \/ OwnerAdds \/ LogOut \/ Restart
                   \/ \E r \in Requests : Fails(r) \/ AnswerLost(r)
    PROVE  TypeOK'
<1>0. /\ row \in Statuses /\ client \in Client /\ GroupsTyped /\ StepsTyped /\ RestTyped
      /\ MaxGroups \in Nat /\ NoName \notin Names /\ MaxEvents \in Nat
    BY TypeParts, SourceGroupsAssumption, SessionAssumption
<1>1. CASE OwnerNames
    <2>1. row' \in Statuses /\ client' \in Client
        BY <1>0, <1>1 DEF OwnerNames, sessionVars
    <2>2. StepsTyped'
        BY <1>0, <1>1 DEF OwnerNames, Filling, StepsTyped, WorkType
    <2>3. RestTyped'
        BY <1>0, <1>1 DEF OwnerNames, Event, RestTyped
    <2>4. CASE \E n \in Names : CreateGroup(n)
        <3>1. PICK n \in Names : CreateGroup(n)
            BY <2>4
        <3>2. created + 1 \in GroupIds /\ created' = created + 1
            BY <1>0, <3>1 DEF CreateGroup, Create, GroupsTyped, GroupType, GroupIds
        <3>3. GroupType'
            BY <1>0, <3>1, <3>2 DEF CreateGroup, Create, GroupsTyped, GroupType, GroupIds
        <3>4. ASSUME NEW g \in GroupIds, name'[g] # NoName PROVE g <= created'
            <4>1. g = created + 1 \/ Exists(g)
                BY <1>0, <3>1, <3>4 DEF CreateGroup, Create, GroupsTyped, GroupType, Exists
            <4> QED BY <1>0, <3>2, <4>1 DEF GroupsTyped, GroupType, GroupIds
        <3>5. GroupsTyped'
            BY <3>3, <3>4 DEF GroupsTyped, Exists
        <3> QED BY <2>1, <2>2, <2>3, <3>5, TypeAfter
    <2>5. CASE \E g \in GroupIds, n \in Names : UpdateGroup(g, n)
        <3>1. GroupsTyped'
            BY <1>0, <2>5 DEF UpdateGroup, GroupsTyped, GroupType, Exists
        <3> QED BY <2>1, <2>2, <2>3, <3>1, TypeAfter
    <2> QED BY <1>1, <2>4, <2>5 DEF OwnerNames
<1>2. CASE OwnerEdits
    <2>1. row' \in Statuses /\ client' \in Client
        BY <1>0, <1>2 DEF OwnerEdits, sessionVars
    <2>2. StepsTyped'
        BY <1>0, <1>2 DEF OwnerEdits, Filling, StepsTyped, WorkType
    <2>3. RestTyped'
        BY <1>0, <1>2 DEF OwnerEdits, Event, RestTyped
    <2>4. GroupsTyped'
        BY <1>0, <1>2 DEF OwnerEdits, DeleteGroup, RemoveGroupChat, GroupsTyped, GroupType, Exists
    <2> QED BY <2>1, <2>2, <2>3, <2>4, TypeAfter
<1>3. CASE OwnerAdds
    <2>1. row' \in Statuses /\ client' \in Client
        BY <1>0, <1>3 DEF OwnerAdds, sessionVars
    <2>2. StepsTyped'
        BY <1>0, <1>3, StepsStay DEF OwnerAdds
    <2>3. RestTyped'
        BY <1>0, <1>3 DEF OwnerAdds, Event, RestTyped
    <2>4. GroupsTyped'
        BY <1>0, <1>3 DEF OwnerAdds, AddGroupChat, AddChat, GroupsTyped, GroupType, Exists
    <2> QED BY <2>1, <2>2, <2>3, <2>4, TypeAfter
<1>4. CASE LogOut
    <2>1. row' \in Statuses /\ client' \in Client
        BY <1>0, <1>4, LoggedOutType DEF LogOut
    <2>2. StepsTyped' /\ GroupsTyped'
        BY <1>0, <1>4, StepsStay, GroupsStay DEF LogOut
    <2>3. RestTyped'
        BY <1>0, <1>4 DEF LogOut, Event, RestTyped
    <2> QED BY <2>1, <2>2, <2>3, TypeAfter
<1>5. ASSUME Fault PROVE row' \in Statuses /\ GroupsTyped' /\ RestTyped'
    <2>1. row' \in Statuses /\ GroupsTyped'
        BY <1>0, <1>5, GroupsStay DEF Fault
    <2>2. RestTyped'
        BY <1>0, <1>5 DEF Fault, Event, RestTyped
    <2> QED BY <2>1, <2>2
<1>6. CASE Restart
    <2>1. client' \in Client
        BY <1>0, <1>6, ClientParts, NewClientType DEF Restart
    <2>2. StepsTyped'
        BY <1>6, NoLocalsTyped DEF Restart, StepsTyped, WorkType, Control
    <2> QED BY <1>5, <1>6, <2>1, <2>2, TypeAfter DEF Restart
<1>7. ASSUME NEW r \in Requests, Fails(r) PROVE TypeOK'
    <2>1. client' \in Client
        BY <1>0, <1>7, HandleType DEF Fails
    <2>2. StepsTyped'
        BY <1>0, <1>7, EndsTyped DEF Fails
    <2> QED BY <1>5, <1>7, <2>1, <2>2, TypeAfter DEF Fails
<1>8. ASSUME NEW r \in Requests, AnswerLost(r) PROVE TypeOK'
    <2>1. PICK t \in Accepts(pc[r], Started(client).td) : client' = Unanswered(client, t)
        BY <1>8 DEF AnswerLost
    <2>2. Started(client).td \in Stages
        BY <1>0, StartedType, ClientParts
    <2>3. client' \in Client
        BY <1>0, <2>1, <2>2, AcceptsStages, AuthType
    <2>4. StepsTyped'
        BY <1>0, <1>8, EndsTyped DEF AnswerLost
    <2> QED BY <1>5, <1>8, <2>3, <2>4, TypeAfter DEF AnswerLost
<1> QED BY <1>1, <1>2, <1>3, <1>4, <1>6, <1>7, <1>8

LEMMA TypeStep == TypeOK /\ [Next]_vars => TypeOK'
<1>1. ASSUME TypeOK, UNCHANGED vars PROVE TypeOK'
    BY <1>1 DEF vars, sessionVars, groupVars, stepVars, restVars, TypeOK, GroupType, WorkType, GhostType, Exists
<1>2. ASSUME TypeOK, Next PROVE TypeOK'
    BY <1>2, ArrivesTyped, SessionStepTyped, SyncStepTyped, OthersTyped DEF Next
<1> QED BY <1>1, <1>2

\* Row, client, groups and requests keep their types (all actions of TelegramSession).
THEOREM TypeCorrect == Spec => []TypeOK
BY InitTyped, TypeStep, PTL DEF Spec

-----------------------------------------------------------------------------
\* Requests that met no other one.  Of those, only a login, and a deletion at its
\* end, go on without a row.

Rowless == {"start", "askLogin", "saveLogin", "remove"}

AloneInv == \A r \in alone : /\ Busy(r)
                             /\ \A q \in Requests \ {r} : ~Busy(q)
                             /\ row = "none" => pc[r] \in Rowless

\* The shapes a step has for the requests.
Ended(r)     == Ends(r) /\ Busy(r)
Went(r, l)   == Busy(r) /\ \E x \in Locals : GoesWith(r, l, x)
Began(r, l)  == \E x \in Locals : Begins(r, l, x)

LEMMA Shapes ==
    ASSUME TypeOK, NEW r \in Requests
    PROVE  /\ Arrives(r) => /\ row' = row
                            /\ \/ Began(r, "start")
                               \/ row # "none" /\ \E l \in {"phone", "code", "password", "ask", "stop", "check"} : Began(r, l)
           /\ SessionStep(r) =>
                  \/ pc[r] = "start" /\ Went(r, "askLogin") /\ row' = row
                  \/ pc[r] = "askLogin" /\ Went(r, "saveLogin") /\ row' = row
                  \/ pc[r] \in {"saveLogin", "save"} /\ Ended(r) /\ row' # "none"
                  \/ pc[r] \notin Rowless /\ row' = row /\ (Ended(r) \/ \E l \in {"ask", "save", "forget"} : Went(r, l))
                  \/ DeleteRow(r) /\ Went(r, "remove") /\ row' = "none"
                  \/ RemoveAll(r) /\ Ended(r) /\ row' = row
           /\ SyncStep(r) =>
                  /\ pc[r] \in Syncing
                  /\ \/ row' = row /\ Ended(r)
                     \/ row' = row /\ \E l \in Syncing : Went(r, l)
                     \/ row' = row /\ \E f \in Folders, x \in Locals : NewGroup(r, f, x)
                     \/ row' = "connected" /\ pc[r] = "fill" /\ Ended(r)
<1>0. StepsTyped /\ local[r] \in Locals /\ NoLocals \in Locals
    BY TypeParts, LocalParts, NoLocalsTyped
<1>1. ASSUME Arrives(r)
      PROVE  /\ row' = row
             /\ \/ Began(r, "start")
                \/ row # "none" /\ \E l \in {"phone", "code", "password", "ask", "stop", "check"} : Began(r, l)
    <2>1. ASSUME NEW t \in GroupIds \cup {0}, Connected(r, t) PROVE row # "none" /\ Began(r, "check") /\ row' = row
        <3>1. [NoLocals EXCEPT !.target = t] \in Locals
            BY <1>0 DEF Locals
        <3> QED BY <2>1, <3>1 DEF Connected, Began, sessionVars
    <2>2. CASE Sync(r) \/ \E g \in GroupIds : AddPublicChannel(r, g)
        BY <2>1, <2>2 DEF Sync, AddPublicChannel
    <2>3. CASE Start(r)
        BY <1>0, <2>3 DEF Start, Began
    <2>4. CASE \E input \in {"phone", "code", "password"} : Submit(r, input)
        BY <1>0, <2>4 DEF Submit, Began, sessionVars
    <2>5. CASE Status(r)
        BY <1>0, <2>5 DEF Status, Began, sessionVars
    <2>6. CASE DeleteSession(r)
        BY <1>0, <2>6 DEF DeleteSession, Began, sessionVars
    <2> QED BY <1>1, <2>2, <2>3, <2>4, <2>5, <2>6 DEF Arrives
<1>2. ASSUME SessionStep(r)
      PROVE  \/ pc[r] = "start" /\ Went(r, "askLogin") /\ row' = row
             \/ pc[r] = "askLogin" /\ Went(r, "saveLogin") /\ row' = row
             \/ pc[r] \in {"saveLogin", "save"} /\ Ended(r) /\ row' # "none"
             \/ pc[r] \notin Rowless /\ row' = row /\ (Ended(r) \/ \E l \in {"ask", "save", "forget"} : Went(r, l))
             \/ DeleteRow(r) /\ Went(r, "remove") /\ row' = "none"
             \/ RemoveAll(r) /\ Ended(r) /\ row' = row
    <2>1. CASE StartClient(r)
        BY <1>0, <2>1 DEF StartClient, Goes, Went, Busy
    <2>2. CASE SubmitToClient(r)
        BY <1>0, <2>2 DEF SubmitToClient, Goes, Went, Busy, Rowless
    <2>3. CASE SubmitRefused(r)
        BY <2>3 DEF SubmitRefused, Ended, Busy, Rowless
    <2>4. CASE AskState(r)
        <3>1. client' \in Client /\ row' = row
            BY <2>4, TypeParts, StartedType DEF AskState
        <3>2. [local[r] EXCEPT !.seen = client'.authState] \in Locals
            BY <1>0, <3>1, ClientParts DEF Locals
        <3>3. Went(r, IF pc[r] = "ask" THEN "save" ELSE "saveLogin")
            BY <2>4, <3>2 DEF AskState, Went, Busy
        <3> QED BY <2>4, <3>1, <3>3 DEF AskState, Rowless
    <2>5. CASE SaveState(r)
        BY <2>5, StatusType DEF SaveState, Ended, Busy
    <2>6. CASE StopClient(r)
        BY <1>0, <2>6 DEF StopClient, Goes, Went, Ended, Busy, Rowless
    <2>7. CASE DeleteRow(r)
        BY <1>0, <2>7 DEF DeleteRow, Goes, Went, Busy
    <2>8. CASE RemoveAll(r)
        BY <2>8 DEF RemoveAll, Ended, Busy
    <2> QED BY <1>2, <2>1, <2>2, <2>3, <2>4, <2>5, <2>6, <2>7, <2>8 DEF SessionStep
<1>3. ASSUME SyncStep(r)
      PROVE  /\ pc[r] \in Syncing
             /\ \/ row' = row /\ Ended(r)
                \/ row' = row /\ \E l \in Syncing : Went(r, l)
                \/ row' = row /\ \E f \in Folders, x \in Locals : NewGroup(r, f, x)
                \/ row' = "connected" /\ pc[r] = "fill" /\ Ended(r)
    <2>0. \A l \in Syncing : l # "idle"
        BY DEF Syncing
    <2>1. CASE readyClient(r)
        BY <1>0, <2>0, <2>1 DEF readyClient, Goes, Went, Ended, Busy, Syncing
    <2>2. CASE SyncFolders(r)
        BY <1>0, <2>2, NamedFolders DEF SyncFolders, Went, Busy, Syncing
    <2>3. CASE SyncChats(r)
        BY <1>0, <2>3 DEF SyncChats, Stores, Goes, Went, Ended, Busy, Syncing
    <2>4. CASE ListGroups(r)
        <3>1. PICK k \in [Names -> GroupIds \cup {0}] :
                  GoesWith(r, "fill", [local[r] EXCEPT !.known = k, !.todo = local[r].folders])
            BY <2>4 DEF ListGroups
        <3>2. [local[r] EXCEPT !.known = k, !.todo = local[r].folders] \in Locals
            <4>1. local[r].folders \subseteq Folders
                BY <1>0, LocalParts
            <4> QED BY <1>0, <4>1 DEF Locals
        <3>3. Went(r, "fill")
            BY <2>4, <3>1, <3>2 DEF ListGroups, Went, Busy
        <3> QED BY <2>4, <3>3 DEF ListGroups, sessionVars, Syncing
    <2>5. CASE \E f \in Folders : KnownGroup(r, f)
        <3>1. PICK f \in Folders : KnownGroup(r, f)
            BY <2>5
        <3>2. PICK g : g = local[r].known[NameOf[f]]
            OBVIOUS
        <3>3. g \in GroupIds
            <4>1. NameOf[f] \in Names
                BY SessionAssumption
            <4> QED BY <1>0, <3>1, <3>2, <4>1, LocalParts DEF KnownGroup
        <3>4. [local[r] EXCEPT !.links = Links(g, f), !.todo = @ \ {f}] \in Locals
            BY <1>0, <3>3, NewLocals, LocalParts
        <3>5. GoesWith(r, "fill", [local[r] EXCEPT !.links = Links(g, f), !.todo = @ \ {f}])
            BY <3>1, <3>2 DEF KnownGroup
        <3>6. Went(r, "fill")
            BY <3>1, <3>4, <3>5 DEF KnownGroup, NextFolder, Went, Busy
        <3> QED BY <3>1, <3>6 DEF KnownGroup, NextFolder, sessionVars, Syncing
    <2>6. CASE \E f \in Folders : FolderGroup(r, f)
        <3>1. PICK f \in Folders : FolderGroup(r, f)
            BY <2>6
        <3>2. PICK g : g = created'
            OBVIOUS
        <3>3. NewGroup(r, f, [local[r] EXCEPT !.known[NameOf[f]] = g, !.links = Links(g, f), !.todo = @ \ {f}])
            BY <3>1, <3>2 DEF FolderGroup
        <3>4. g \in GroupIds
            BY <3>2, <3>3, TypeParts, SourceGroupsAssumption DEF NewGroup, Create, GroupsTyped, GroupType, GroupIds
        <3>5. [local[r] EXCEPT !.known[NameOf[f]] = g, !.links = Links(g, f), !.todo = @ \ {f}] \in Locals
            BY <1>0, <3>4, NewLocals, LocalParts
        <3> QED BY <3>3, <3>5 DEF NewGroup, NextFolder, sessionVars, Syncing
    <2>7. CASE CreateFails(r)
        BY <2>7 DEF CreateFails, NextFolder, sessionVars, Ended, Busy, Syncing
    <2>8. CASE AddFolderChat(r)
        <3>1. \E m : GoesWith(r, "fill", [local[r] EXCEPT !.links = @ \ {m}]) \/ Ends(r)
            BY <2>8 DEF AddFolderChat
        <3>2. \A m : [local[r] EXCEPT !.links = @ \ {m}] \in Locals
            BY <1>0, LocalParts DEF Locals
        <3>3. Went(r, "fill") \/ Ended(r)
            BY <2>8, <3>1, <3>2 DEF AddFolderChat, Went, Ended, Busy
        <3> QED BY <2>8, <3>3 DEF AddFolderChat, sessionVars, Syncing
    <2>9. CASE SaveConnection(r)
        BY <2>9 DEF SaveConnection, Ended, Busy, Syncing
    <2>10. CASE ResolvePublicChat(r)
        <3>1. CASE Ends(r)
            BY <2>10, <3>1 DEF ResolvePublicChat, Ended, Busy, Syncing
        <3>2. CASE ~Ends(r)
            <4>1. PICK c \in Channels : GoesWith(r, "attach", [local[r] EXCEPT !.links = {<<local[r].target, c>>}])
                BY <2>10, <3>2 DEF ResolvePublicChat
            <4>2. local[r].target \in GroupIds /\ c \in Chats
                BY <1>0, <2>10, LocalParts, SessionAssumption DEF ResolvePublicChat
            <4>3. [local[r] EXCEPT !.links = {<<local[r].target, c>>}] \in Locals
                BY <1>0, <4>2 DEF Locals
            <4> QED BY <2>10, <4>1, <4>3 DEF ResolvePublicChat, Went, Busy, Syncing
        <3> QED BY <3>1, <3>2
    <2>11. CASE AttachChannel(r)
        BY <2>11 DEF AttachChannel, sessionVars, Ended, Busy, Syncing
    <2> QED BY <1>3, <2>1, <2>2, <2>3, <2>4, <2>5, <2>6, <2>7, <2>8, <2>9, <2>10, <2>11 DEF SyncStep
<1> QED BY <1>1, <1>2, <1>3

LEMMA AloneBegins ==
    ASSUME TypeOK, AloneInv, NEW r \in Requests, NEW l \in Control \ {"resolve", "idle"}, Began(r, l), row' = row,
           l = "start" \/ row # "none"
    PROVE  AloneInv'
<1>1. PICK x \in Locals : Begins(r, l, x)
    BY DEF Began
<1>2. StepsTyped
    BY TypeParts
<1>3. /\ pc'[r] = l
      /\ \A q \in Requests \ {r} : pc'[q] = pc[q]
      /\ alone' = {} \/ (alone' = {r} /\ \A q \in Requests : ~Busy(q))
    BY <1>1, <1>2, BeginsTyped
<1> QED BY <1>3 DEF AloneInv, Busy, Rowless

LEMMA AloneGoes ==
    ASSUME TypeOK, AloneInv, NEW r \in Requests, NEW l \in Control \ {"idle"}, Went(r, l),
           (row' = row /\ (l \in Rowless \/ pc[r] \notin Rowless)) \/ l = "remove"
    PROVE  AloneInv'
<1>1. PICK x \in Locals : GoesWith(r, l, x)
    BY DEF Went
<1>2. /\ pc' = [pc EXCEPT ![r] = l] /\ alone' = alone /\ StepsTyped
    BY <1>1, TypeParts DEF GoesWith
<1>3. pc'[r] = l /\ \A q \in Requests \ {r} : pc'[q] = pc[q]
    BY <1>2 DEF StepsTyped, WorkType
<1>4. "remove" \in Rowless
    BY DEF Rowless
<1>5. alone \subseteq Requests
    BY <1>2 DEF StepsTyped
<1>6. Busy(r)
    BY DEF Went
<1>7. ASSUME NEW q \in alone PROVE pc'[q] # "idle" /\ (\A p \in Requests \ {q} : pc'[p] = "idle")
                                   /\ (row' = "none" => pc'[q] \in Rowless)
    <2>1. q = r
        BY <1>5, <1>6, <1>7 DEF AloneInv
    <2> QED BY <1>2, <1>3, <1>4, <1>5, <1>7, <2>1 DEF AloneInv, Busy
<1> QED BY <1>2, <1>7 DEF AloneInv, Busy

LEMMA AloneEnds ==
    ASSUME TypeOK, AloneInv, NEW r \in Requests, Ends(r), row' # "none" \/ row' = row
    PROVE  AloneInv'
<1>1. StepsTyped
    BY TypeParts
<1>2. pc'[r] = "idle" /\ (\A q \in Requests \ {r} : pc'[q] = pc[q]) /\ alone' = alone \ {r}
    BY <1>1, EndsTyped
<1> QED BY <1>1, <1>2 DEF AloneInv, Busy, StepsTyped

\* Nothing about the requests changes, or all of them end.
LEMMA AloneStays ==
    ASSUME AloneInv, UNCHANGED <<row, pc, alone>> \/ alone' = {}
    PROVE  AloneInv'
BY DEF AloneInv, Busy

LEMMA AloneStep == TypeOK /\ AloneInv /\ [Next]_vars => AloneInv'
<1> SUFFICES ASSUME TypeOK, AloneInv, [Next]_vars PROVE AloneInv'
    OBVIOUS
<1>0. /\ {"start", "phone", "code", "password", "ask", "stop", "check"} \subseteq Control \ {"resolve", "idle"}
      /\ {"askLogin", "saveLogin", "ask", "save", "forget", "remove"} \cup Syncing \subseteq Control \ {"idle"}
      /\ Rowless \cap Syncing = {} /\ {"askLogin", "saveLogin"} \subseteq Rowless
    BY DEF Control, Login, Delete, Syncing, Rowless
<1>1. ASSUME NEW r \in Requests, Arrives(r) PROVE AloneInv'
    BY <1>0, <1>1, Shapes, AloneBegins
<1>2. ASSUME NEW r \in Requests, SessionStep(r) PROVE AloneInv'
    <2>1. CASE pc[r] = "start" /\ Went(r, "askLogin") /\ row' = row
        BY <1>0, <2>1, AloneGoes
    <2>2. CASE pc[r] = "askLogin" /\ Went(r, "saveLogin") /\ row' = row
        BY <1>0, <2>2, AloneGoes
    <2>3. CASE Ended(r) /\ row' # "none"
        BY <2>3, AloneEnds DEF Ended
    <2>4. CASE pc[r] \notin Rowless /\ row' = row /\ (Ended(r) \/ \E l \in {"ask", "save", "forget"} : Went(r, l))
        BY <1>0, <2>4, AloneEnds, AloneGoes DEF Ended
    <2>5. CASE Went(r, "remove") /\ row' = "none"
        BY <1>0, <2>5, AloneGoes
    <2>6. CASE Ended(r) /\ row' = row
        BY <2>6, AloneEnds DEF Ended
    <2> QED BY <1>2, <2>1, <2>2, <2>3, <2>4, <2>5, <2>6, Shapes
<1>3. ASSUME NEW r \in Requests, SyncStep(r) PROVE AloneInv'
    <2>1. CASE row' = row /\ Ended(r)
        BY <2>1, AloneEnds DEF Ended
    <2>2. CASE row' = row /\ \E l \in Syncing : Went(r, l)
        <3>1. pc[r] \notin Rowless
            BY <1>0, <1>3, Shapes
        <3> QED BY <1>0, <2>2, <3>1, AloneGoes
    <2>3. CASE row' = row /\ \E f \in Folders, x \in Locals : NewGroup(r, f, x)
        BY <2>3, AloneStays DEF NewGroup
    <2>4. CASE row' = "connected" /\ Ended(r)
        BY <2>4, AloneEnds DEF Ended
    <2> QED BY <1>3, <2>1, <2>2, <2>3, <2>4, Shapes
<1>4. ASSUME NEW r \in Requests, Fails(r) \/ AnswerLost(r) PROVE AloneInv'
    BY <1>4, AloneEnds DEF Fails, AnswerLost, Fault
<1>5. CASE OwnerNames \/ OwnerEdits \/ OwnerAdds \/ LogOut \/ Restart
    BY <1>5, AloneStays DEF OwnerNames, OwnerEdits, OwnerAdds, LogOut, Restart, sessionVars, stepVars
<1>6. CASE UNCHANGED vars
    BY <1>6, AloneStays DEF vars, sessionVars, stepVars
<1> QED BY <1>1, <1>2, <1>3, <1>4, <1>5, <1>6 DEF Next

LEMMA AloneAlways == Spec => []AloneInv
<1>1. Init => AloneInv
    BY DEF Init, AloneInv
<1> QED BY <1>1, AloneStep, TypeCorrect, PTL DEF Spec

\* A deleted session comes back by a login only: by /connect, or by a request that had
\* found the row before (auth.go: Start, Status, Submit...; sync.go: SyncAll).
THEOREM LoginBringsBack == Spec => BackByLoginOnly
<1> DEFINE A == row = "none" /\ row' # "none" =>
                    \E r \in Requests : (pc[r] = "saveLogin" \/ r \notin alone) /\ pc'[r] = "idle" /\ Busy(r)
<1>1. ASSUME TypeOK, AloneInv, Next PROVE A
    <2> SUFFICES ASSUME row = "none", row' # "none"
                 PROVE  \E r \in Requests : (pc[r] = "saveLogin" \/ r \notin alone) /\ pc'[r] = "idle" /\ Busy(r)
        OBVIOUS
    <2>1. PICK r \in Requests : \/ pc[r] \in {"saveLogin", "save"} /\ Ended(r)
                                \/ pc[r] = "fill" /\ Ended(r)
        <3>1. ASSUME ~\E r \in Requests : SessionStep(r) \/ SyncStep(r) PROVE FALSE
            <4>1. row' = row
                BY <1>1, <3>1, Shapes
                DEF Next, Fails, AnswerLost, OwnerNames, OwnerEdits, OwnerAdds, LogOut, Restart, Fault, sessionVars
            <4> QED BY <4>1
        <3> QED BY <1>1, <3>1, Shapes
    <2>2. pc'[r] = "idle" /\ Busy(r)
        BY <1>1, <2>1, TypeParts, EndsTyped DEF Ended
    <2>3. r \in alone => pc[r] = "saveLogin"
        BY <1>1, <2>1 DEF AloneInv, Rowless
    <2> QED BY <2>2, <2>3
<1>2. ASSUME UNCHANGED vars PROVE A
    BY <1>2 DEF vars, sessionVars
<1>3. TypeOK /\ AloneInv /\ [Next]_vars => [A]_vars
    BY <1>1, <1>2
<1> QED BY <1>3, TypeCorrect, AloneAlways, PTL DEF Spec, BackByLoginOnly

-----------------------------------------------------------------------------
\* What the client and TDLib agree on.

Trusty(c) == c.authState = "ready" => c.handle /\ c.td = "ready"

Held(c) == c.authState = "ready" => c.handle

OnDisk(c) == c.handle => c.files = "saved" \/ c.td = "closed"

Ready(c) == c.td = "ready" /\ c.files = "saved"

Keeps(c, d) == /\ Trusty(c) => Trusty(d)
               /\ Held(c) => Held(d)
               /\ OnDisk(c) => OnDisk(d)
               /\ Ready(c) => Ready(d)

LEMMA MkdirKeeps == ASSUME NEW c \in Client PROVE Keeps(c, MkdirAll(c))
BY DEF MkdirAll, Client, Keeps, Trusty, Held, OnDisk, Ready

LEMMA HandleKeeps == ASSUME NEW c \in Client PROVE Keeps(c, ensureHandle(c))
BY DEF ensureHandle, Client, Keeps, Trusty, Held, OnDisk, Ready

LEMMA UpdateKeeps == ASSUME NEW c \in Client, c.handle PROVE Keeps(c, updateAuthorizationFrom(c))
BY DEF updateAuthorizationFrom, Client, Keeps, Trusty, Held, OnDisk, Ready

LEMMA KeepsOn ==
    ASSUME NEW c, NEW d, NEW e, Keeps(c, d), Keeps(d, e) PROVE Keeps(c, e)
BY DEF Keeps

LEMMA SendKeeps == ASSUME NEW c \in Client PROVE Keeps(c, sendAndWait(c))
<1>1. PICK e : e = ensureHandle(c)
    OBVIOUS
<1>2. e \in Client /\ e.handle /\ Keeps(c, e)
    BY <1>1, HandleType, HandleKeeps
<1>3. Keeps(c, updateAuthorizationFrom(e))
    BY <1>2, UpdateKeeps, KeepsOn
<1> QED BY <1>1, <1>2, <1>3 DEF sendAndWait

LEMMA StartedKeeps ==
    ASSUME NEW c \in Client
    PROVE  Keeps(c, Started(c)) /\ Started(c).handle /\ Started(c).authState # "unknown"
<1>1. PICK e : e = ensureHandle(c)
    OBVIOUS
<1>2. e \in Client /\ e.handle /\ Keeps(c, e)
    BY <1>1, HandleType, HandleKeeps
<1>3. Keeps(c, updateAuthorizationFrom(e))
    BY <1>2, UpdateKeeps, KeepsOn
<1>4. updateAuthorizationFrom(e).handle /\ updateAuthorizationFrom(e).authState # "unknown"
    BY <1>2 DEF updateAuthorizationFrom, Client, Stages
<1> QED BY <1>1, <1>2, <1>3, <1>4 DEF Started, advanceAuthorization, waitAuthorizationState

\* An input moves a TDLib that is not authorized.
LEMMA AcceptedKeeps ==
    ASSUME NEW c \in Client, NEW i, NEW t \in Accepts(i, Started(c).td)
    PROVE  Keeps(c, submitAuth(c, t)) /\ Keeps(c, Unanswered(c, t))
<1>1. PICK s : s = Started(c)
    OBVIOUS
<1>2. s \in Client /\ s.handle /\ s.authState # "unknown" /\ Keeps(c, s)
    BY <1>1, StartedType, StartedKeeps
<1>3. s.td \notin {"ready", "closed"} /\ t \in Stages
    BY <1>1 DEF Accepts, Stages
<1>4. PICK e : e = [s EXCEPT !.td = t]
    OBVIOUS
<1>5. e \in Client /\ e.handle /\ e.authState # "unknown" /\ Keeps(s, e)
    BY <1>2, <1>3, <1>4 DEF Client, Keeps, Trusty, Held, OnDisk, Ready
<1>6. sendAndWait(e) \in Client /\ Keeps(e, sendAndWait(e)) /\ sendAndWait(e).handle
    <2>1. ensureHandle(e) = e
        BY <1>5 DEF ensureHandle
    <2>2. sendAndWait(e).handle
        BY <1>5, <2>1 DEF sendAndWait, updateAuthorizationFrom, Client
    <2> QED BY <1>5, <2>2, SendType, SendKeeps
<1>7. PICK d : d = sendAndWait(e)
    OBVIOUS
<1>8. Keeps(e, advanceAuthorization(d))
    BY <1>6, <1>7, UpdateKeeps, KeepsOn DEF advanceAuthorization, waitAuthorizationState
<1>9. Keeps(c, submitAuth(c, t))
    BY <1>1, <1>2, <1>4, <1>5, <1>7, <1>8, KeepsOn DEF submitAuth
<1>10. Keeps(s, Unanswered(c, t))
    BY <1>1, <1>2, <1>3 DEF Unanswered, Client, Keeps, Trusty, Held, OnDisk, Ready
<1> QED BY <1>2, <1>9, <1>10, KeepsOn

LEMMA StoppedKeeps == ASSUME NEW c \in Client PROVE Keeps(c, Stopped(c)) /\ ~Stopped(c).handle
BY DEF Stopped, Client, Keeps, Trusty, Held, OnDisk, Ready

LEMMA FoldersKeep == ASSUME NEW c \in Client, NEW d \in ListFolders(c) PROVE Keeps(c, d)
<1>1. \A h \in {c, [c EXCEPT !.queued = FALSE]} : Keeps(c, h) /\ Keeps(c, [h EXCEPT !.cached = TRUE])
    BY DEF Client, Keeps, Trusty, Held, OnDisk, Ready
<1> QED BY <1>1 DEF ListFolders, waitChatFolders, Keeps

LEMMA Same == ASSUME NEW c PROVE Keeps(c, c)
BY DEF Keeps

\* Every step of a request keeps it, but for the removal of the directory.
LEMMA StepKeeps ==
    ASSUME TypeOK, NEW r \in Requests, Arrives(r) \/ SessionStep(r) \/ SyncStep(r) \/ Fails(r) \/ AnswerLost(r), ~RemoveAll(r)
    PROVE  Keeps(client, client')
<1>0. client \in Client /\ Keeps(client, client)
    BY TypeParts, Same
<1>1. CASE Arrives(r)
    BY <1>0, <1>1, MkdirKeeps DEF Arrives, Start, Submit, Status, DeleteSession, Sync, AddPublicChannel, Connected, sessionVars
<1>2. CASE StartClient(r) \/ AskState(r) \/ readyClient(r)
    BY <1>0, <1>2, StartedKeeps DEF StartClient, AskState, readyClient
<1>3. CASE SubmitToClient(r) \/ AnswerLost(r)
    <2>1. PICK t \in Accepts(pc[r], Started(client).td) : client' \in {submitAuth(client, t), Unanswered(client, t)}
        BY <1>3 DEF SubmitToClient, AnswerLost
    <2> QED BY <1>0, <2>1, AcceptedKeeps
<1>4. CASE SubmitRefused(r)
    BY <1>0, <1>4, StartedKeeps, StartedType, SendKeeps, KeepsOn DEF SubmitRefused
<1>5. CASE SaveState(r) \/ DeleteRow(r)
    BY <1>0, <1>5 DEF SaveState, DeleteRow
<1>6. CASE StopClient(r)
    BY <1>0, <1>6, StoppedKeeps DEF StopClient
<1>7. CASE SyncFolders(r)
    BY <1>0, <1>7, FoldersKeep DEF SyncFolders
<1>8. CASE SyncChats(r) \/ ResolvePublicChat(r)
    BY <1>0, <1>8, SendKeeps DEF SyncChats, Stores, loadChats, ResolvePublicChat
<1>9. CASE ListGroups(r) \/ CreateFails(r) \/ AddFolderChat(r) \/ SaveConnection(r) \/ AttachChannel(r)
    BY <1>0, <1>9 DEF ListGroups, CreateFails, AddFolderChat, SaveConnection, AttachChannel, sessionVars
<1>10. CASE \E f \in Folders : KnownGroup(r, f) \/ FolderGroup(r, f)
    BY <1>0, <1>10 DEF KnownGroup, FolderGroup, NewGroup, sessionVars
<1>11. CASE Fails(r)
    BY <1>0, <1>11, HandleKeeps DEF Fails
<1> QED BY <1>1, <1>2, <1>3, <1>4, <1>5, <1>6, <1>7, <1>8, <1>9, <1>10, <1>11 DEF SessionStep, SyncStep

\* While nothing failed, no deletion met another request, and the row shows it when the
\* session was ended elsewhere.
Sure == ~spoiled /\ ~loggedOut

\* Requests that know of an authorized TDLib.
Confident(r) == \/ pc[r] \in {"save", "saveLogin"} /\ local[r].seen = "ready"
                \/ pc[r] \in Syncing \ {"check"}

TrustInv == ~loggedOut => Trusty(client)

DeleteInv == \A r \in alone : /\ pc[r] \in {"forget", "remove"} => ~client.handle
                              /\ pc[r] = "remove" => row = "none"

HeldInv == Held(client)

\* What a request that met no other one was told is what the client still believes.
SeenInv == \A r \in alone : pc[r] \in {"save", "saveLogin"} => local[r].seen = client.authState

DiskInv == ~spoiled => OnDisk(client)

ReadyInv == Sure /\ (row = "connected" \/ \E r \in Requests : Confident(r)) => Ready(client)

LeftInv == row = "none" /\ ~spoiled =>
               /\ \A r \in Requests : Busy(r) => pc[r] \in Rowless
               /\ Quiet => ~client.handle /\ client.files = "none"

ClientInv == AloneInv /\ HeldInv /\ SeenInv /\ TrustInv /\ DeleteInv /\ DiskInv /\ ReadyInv /\ LeftInv

Others == OwnerNames \/ OwnerEdits \/ OwnerAdds

LEMMA NextCases ==
    ASSUME [Next]_vars
    PROVE  \/ \E r \in Requests : Arrives(r) \/ SessionStep(r) \/ SyncStep(r) \/ Fails(r) \/ AnswerLost(r)
           \/ LogOut
           \/ Restart
           \/ UNCHANGED <<row, client, pc, local, alone, spoiled, loggedOut>>
BY DEF Next, Others, OwnerNames, OwnerEdits, OwnerAdds, vars, sessionVars, stepVars, restVars

\* A request that met no other one writes a row that does not say connected.
Resets(r) == (SaveState(r) \/ DeleteRow(r)) /\ r \in alone /\ row' # "connected"

\* What becomes of the ghosts.
LEMMA Ghosts ==
    ASSUME TypeOK, NEW r \in Requests, Arrives(r) \/ SessionStep(r) \/ SyncStep(r)
    PROVE  /\ loggedOut' = loggedOut \/ Resets(r)
           /\ \/ spoiled' = spoiled
              \/ DeleteRow(r) /\ spoiled' = (spoiled \/ r \notin alone)
              \/ RemoveAll(r) /\ spoiled' = (r \notin alone)
<1>1. CASE Arrives(r)
    BY <1>1 DEF Arrives, Start, Submit, Status, DeleteSession, Sync, AddPublicChannel, Connected, Apart, restVars
<1>2. CASE SessionStep(r)
    <2>1. CASE SaveState(r) \/ DeleteRow(r)
        <3>1. loggedOut' = loggedOut \/ Resets(r)
            BY <2>1, TypeParts DEF SaveState, DeleteRow, Settles, Resets, RestTyped
        <3> QED BY <2>1, <3>1 DEF SaveState, DeleteRow
    <2>2. CASE ~SaveState(r) /\ ~DeleteRow(r)
        BY <1>2, <2>2 DEF SessionStep, StartClient, SubmitToClient, SubmitRefused, AskState, StopClient,
                          RemoveAll, Apart, restVars
    <2> QED BY <2>1, <2>2
<1>3. CASE SyncStep(r)
    BY <1>3 DEF SyncStep, readyClient, SyncFolders, SyncChats, Stores, ListGroups, KnownGroup, FolderGroup,
                NewGroup, CreateFails, AddFolderChat, SaveConnection, ResolvePublicChat, AttachChannel, Apart, restVars
<1> QED BY <1>1, <1>2, <1>3

\* A request that met no other is the only one that goes on.
LEMMA AloneActs ==
    ASSUME TypeOK, AloneInv, NEW q \in alone, NEW r \in Requests, SessionStep(r) \/ SyncStep(r) \/ Fails(r) \/ AnswerLost(r)
    PROVE  r = q /\ Busy(q)
<1>1. Busy(r)
    <2>1. SessionStep(r) \/ SyncStep(r) => pc[r] # "idle"
        BY Shapes DEF Went, Ended, Busy, Syncing
    <2> QED BY <2>1 DEF Busy, Fails, AnswerLost
<1>2. q \in Requests
    BY TypeParts DEF StepsTyped
<1> QED BY <1>1, <1>2 DEF AloneInv

\* Nothing but its own steps leaves a request among those that met no other one.
LEMMA AloneMoves ==
    ASSUME TypeOK, AloneInv, NEW r \in Requests, SessionStep(r) \/ SyncStep(r) \/ Fails(r) \/ AnswerLost(r), NEW q \in alone'
    PROVE  q = r /\ q \in alone /\ ~Ends(r) /\ (SessionStep(r) \/ SyncStep(r))
<1>0. StepsTyped
    BY TypeParts
<1>1. ~Ends(r)
    <2>1. Ends(r) => q \in alone /\ q # r
        BY <1>0, EndsTyped
    <2> QED BY <2>1, AloneActs
<1>2. SessionStep(r) \/ SyncStep(r)
    BY <1>1 DEF Fails, AnswerLost
<1>3. alone' = alone
    <2>1. \A l : Went(r, l) => alone' = alone
        BY DEF Went, GoesWith
    <2> QED BY <1>1, <1>2, <2>1, Shapes DEF Ended, NewGroup
<1> QED BY <1>1, <1>2, <1>3, AloneActs

LEMMA HeldStep == TypeOK /\ HeldInv /\ [Next]_vars => HeldInv'
<1> SUFFICES ASSUME TypeOK, HeldInv, [Next]_vars PROVE Held(client')
    BY DEF HeldInv
<1>0. client \in Client /\ Held(client)
    BY TypeParts DEF HeldInv
<1>1. ASSUME NEW r \in Requests, Arrives(r) \/ SessionStep(r) \/ SyncStep(r) \/ Fails(r) \/ AnswerLost(r)
      PROVE  Held(client')
    <2>1. CASE RemoveAll(r)
        BY <1>0, <2>1 DEF RemoveAll, Held, Client
    <2>2. CASE ~RemoveAll(r)
        BY <1>0, <1>1, <2>2, StepKeeps DEF Keeps
    <2> QED BY <2>1, <2>2
<1>2. CASE LogOut
    BY <1>0, <1>2 DEF LogOut, LoggedOut, Held, Client
<1>3. CASE Restart
    BY <1>3 DEF Restart, NewNativeClient, Held
<1>4. CASE UNCHANGED <<row, client, pc, local, alone, spoiled, loggedOut>>
    BY <1>0, <1>4
<1> QED BY <1>1, <1>2, <1>3, <1>4, NextCases

LEMMA SeenStep == TypeOK /\ AloneInv /\ SeenInv /\ [Next]_vars => SeenInv'
<1> SUFFICES ASSUME TypeOK, AloneInv, SeenInv, [Next]_vars, NEW q \in alone', pc'[q] \in {"save", "saveLogin"}
             PROVE  local'[q].seen = client'.authState
    BY DEF SeenInv
<1>0. StepsTyped /\ client \in Client
    BY TypeParts
<1>1. ASSUME NEW r \in Requests, Arrives(r) PROVE FALSE
    <2>1. PICK l \in {"start", "phone", "code", "password", "ask", "stop", "check"} : Began(r, l)
        BY <1>1, Shapes
    <2>2. PICK x \in Locals : Begins(r, l, x)
        BY <2>1 DEF Began
    <2>3. l \in Control /\ l # "resolve" /\ l \notin {"save", "saveLogin"}
        BY DEF Control, Login, Delete, Syncing
    <2>4. q = r /\ pc'[r] = l
        BY <1>0, <2>2, <2>3, BeginsTyped
    <2> QED BY <2>3, <2>4
<1>2. ASSUME NEW r \in Requests, SessionStep(r) \/ SyncStep(r) \/ Fails(r) \/ AnswerLost(r)
      PROVE  local'[q].seen = client'.authState
    <2>1. q = r /\ ~Ends(r) /\ (SessionStep(r) \/ SyncStep(r))
        BY <1>2, AloneMoves
    <2>2. CASE AskState(r)
        <3>1. PICK x : x = [local[r] EXCEPT !.seen = client'.authState]
            OBVIOUS
        <3>2. PICK l \in {"save", "saveLogin"} : GoesWith(r, l, x)
            BY <2>2, <3>1 DEF AskState
        <3>3. local'[r] = x
            BY <1>0, <3>2 DEF GoesWith, StepsTyped, WorkType
        <3>4. x.seen = client'.authState
            BY <1>0, <3>1, LocalParts DEF Locals
        <3> QED BY <2>1, <3>3, <3>4
    <2>3. CASE SessionStep(r) /\ ~AskState(r)
        <3>1. \E l \in {"askLogin", "ask", "forget", "remove"} : pc' = [pc EXCEPT ![r] = l]
            BY <2>1, <2>3 DEF SessionStep, StartClient, SubmitToClient, SubmitRefused, SaveState, StopClient,
                              DeleteRow, RemoveAll, Goes, GoesWith
        <3> QED BY <1>0, <2>1, <3>1 DEF StepsTyped, WorkType
    <2>4. CASE SyncStep(r)
        <3>1. pc[r] \in Syncing
            BY <2>4, Shapes
        <3>2. \A l \in Syncing : Went(r, l) => pc'[r] = l
            BY <1>0 DEF Went, GoesWith, StepsTyped, WorkType
        <3>3. pc'[r] \in Syncing
            BY <2>1, <2>4, <3>1, <3>2, Shapes DEF Ended, NewGroup
        <3> QED BY <2>1, <3>3 DEF Syncing
    <2> QED BY <2>1, <2>2, <2>3, <2>4
<1>3. CASE LogOut
    <2>1. q \in alone /\ pc'[q] = pc[q] /\ local'[q] = local[q]
        BY <1>3 DEF LogOut, stepVars
    <2>2. client'.authState = client.authState
        BY <1>0, <1>3 DEF LogOut, LoggedOut, Client
    <2> QED BY <2>1, <2>2 DEF SeenInv
<1>4. CASE Restart
    BY <1>4 DEF Restart
<1>5. CASE UNCHANGED <<row, client, pc, local, alone, spoiled, loggedOut>>
    BY <1>5 DEF SeenInv
<1> QED BY <1>1, <1>2, <1>3, <1>4, <1>5, NextCases

LEMMA TrustStep == TypeOK /\ HeldInv /\ SeenInv /\ DeleteInv /\ TrustInv /\ [Next]_vars => TrustInv'
<1> SUFFICES ASSUME TypeOK, HeldInv, SeenInv, DeleteInv, TrustInv, [Next]_vars, ~loggedOut' PROVE Trusty(client')
    BY DEF TrustInv
<1>0. client \in Client
    BY TypeParts
<1>1. ASSUME NEW r \in Requests, Arrives(r) \/ SessionStep(r) \/ SyncStep(r) \/ Fails(r) \/ AnswerLost(r)
      PROVE  Trusty(client')
    <2>1. ~loggedOut \/ Resets(r)
        BY <1>1, Ghosts DEF Fails, AnswerLost, Fault
    <2>2. CASE ~loggedOut /\ RemoveAll(r)
        BY <1>0, <2>2 DEF RemoveAll, TrustInv, Trusty, Client
    <2>3. CASE ~loggedOut /\ ~RemoveAll(r)
        BY <1>1, <2>3, StepKeeps DEF TrustInv, Keeps
    <2>4. CASE Resets(r)
        <3>1. client' = client
            BY <2>4 DEF Resets, SaveState, DeleteRow
        <3>2. CASE SaveState(r)
            <4>1. local[r].seen = client.authState
                BY <2>4, <3>2 DEF Resets, SaveState, SeenInv
            <4>2. local[r].seen # "ready"
                BY <2>4, <3>2 DEF Resets, SaveState, sessionStatus
            <4> QED BY <3>1, <4>1, <4>2 DEF Trusty
        <3>3. CASE DeleteRow(r)
            <4>1. ~client.handle
                BY <2>4, <3>3 DEF Resets, DeleteRow, DeleteInv
            <4> QED BY <3>1, <4>1 DEF HeldInv, Held, Trusty
        <3> QED BY <2>4, <3>2, <3>3 DEF Resets
    <2> QED BY <2>1, <2>2, <2>3, <2>4
<1>2. CASE LogOut
    BY <1>2 DEF LogOut
<1>3. CASE Restart
    BY <1>3 DEF Restart, NewNativeClient, Trusty
<1>4. CASE UNCHANGED <<row, client, pc, local, alone, spoiled, loggedOut>>
    BY <1>4 DEF TrustInv, Trusty
<1> QED BY <1>1, <1>2, <1>3, <1>4, NextCases

LEMMA DeleteStep == TypeOK /\ AloneInv /\ DeleteInv /\ [Next]_vars => DeleteInv'
<1> SUFFICES ASSUME TypeOK, AloneInv, DeleteInv, [Next]_vars, NEW q \in alone'
             PROVE  /\ pc'[q] \in {"forget", "remove"} => ~client'.handle
                    /\ pc'[q] = "remove" => row' = "none"
    BY DEF DeleteInv
<1>0. StepsTyped /\ client \in Client /\ alone \subseteq Requests
    BY TypeParts DEF StepsTyped
<1>1. ASSUME NEW r \in Requests, Arrives(r) PROVE pc'[q] \notin {"forget", "remove"}
    <2>1. PICK l \in {"start", "phone", "code", "password", "ask", "stop", "check"} : Began(r, l)
        BY <1>1, Shapes
    <2>2. PICK x \in Locals : Begins(r, l, x)
        BY <2>1 DEF Began
    <2>3. l \in Control /\ l # "resolve" /\ l \notin {"forget", "remove"}
        BY DEF Control, Login, Delete, Syncing
    <2>4. q = r /\ pc'[r] = l
        BY <1>0, <2>2, <2>3, BeginsTyped
    <2> QED BY <2>3, <2>4
<1>2. ASSUME NEW r \in Requests, SessionStep(r) \/ SyncStep(r) \/ Fails(r) \/ AnswerLost(r),
             pc'[q] \in {"forget", "remove"}
      PROVE  ~client'.handle /\ (pc'[q] = "remove" => row' = "none")
    <2>1. q = r /\ q \in alone /\ ~Ends(r) /\ (SessionStep(r) \/ SyncStep(r))
        BY <1>2, AloneMoves
    <2>2. CASE SyncStep(r)
        <3>1. pc[r] \in Syncing
            BY <2>2, Shapes
        <3>2. \A l \in Syncing : Went(r, l) => pc'[r] = l
            BY <1>0 DEF Went, GoesWith, StepsTyped, WorkType
        <3>3. pc'[r] \in Syncing
            BY <2>1, <2>2, <3>1, <3>2, Shapes DEF Ended, NewGroup
        <3> QED BY <1>2, <2>1, <3>3 DEF Syncing
    <2>3. CASE StopClient(r)
        <3>1. ~client'.handle /\ Goes(r, "forget")
            BY <1>0, <2>1, <2>3, StoppedKeeps DEF StopClient
        <3>2. pc'[q] = "forget"
            BY <1>0, <2>1, <3>1 DEF Goes, GoesWith, StepsTyped, WorkType
        <3> QED BY <3>1, <3>2
    <2>4. CASE DeleteRow(r)
        BY <2>1, <2>4 DEF DeleteRow, DeleteInv
    <2>5. CASE SessionStep(r) /\ ~StopClient(r) /\ ~DeleteRow(r)
        <3>1. \E l \in {"askLogin", "ask", "save", "saveLogin"} : pc' = [pc EXCEPT ![r] = l]
            BY <2>1, <2>5 DEF SessionStep, StartClient, SubmitToClient, SubmitRefused, AskState, SaveState,
                              RemoveAll, Goes, GoesWith
        <3>2. pc'[q] \notin {"forget", "remove"}
            BY <1>0, <2>1, <3>1 DEF StepsTyped, WorkType
        <3> QED BY <1>2, <3>2
    <2> QED BY <2>1, <2>2, <2>3, <2>4, <2>5
<1>3. CASE LogOut
    <2>1. q \in alone /\ pc'[q] = pc[q] /\ row' = row /\ client.handle
        BY <1>3 DEF LogOut, stepVars
    <2> QED BY <2>1 DEF DeleteInv
<1>4. CASE Restart
    BY <1>4 DEF Restart
<1>5. CASE UNCHANGED <<row, client, pc, local, alone, spoiled, loggedOut>>
    BY <1>5 DEF DeleteInv
<1> QED BY <1>1, <1>2, <1>3, <1>4, <1>5, NextCases

LEMMA DiskStep == TypeOK /\ DeleteInv /\ DiskInv /\ [Next]_vars => DiskInv'
<1> SUFFICES ASSUME TypeOK, DeleteInv, DiskInv, [Next]_vars, ~spoiled' PROVE OnDisk(client')
    BY DEF DiskInv
<1>0. client \in Client
    BY TypeParts
<1>1. ASSUME NEW r \in Requests, Arrives(r) \/ SessionStep(r) \/ SyncStep(r) PROVE OnDisk(client')
    <2>1. CASE RemoveAll(r)
        <3>1. r \in alone /\ ~client.handle
            BY <2>1 DEF RemoveAll, DeleteInv
        <3> QED BY <1>0, <2>1, <3>1 DEF RemoveAll, OnDisk, Client
    <2>2. CASE ~RemoveAll(r)
        <3>1. ~spoiled
            BY <1>1, <2>2, Ghosts
        <3> QED BY <1>1, <2>2, <3>1, StepKeeps DEF DiskInv, Keeps
    <2> QED BY <2>1, <2>2
<1>2. ASSUME NEW r \in Requests, Fails(r) \/ AnswerLost(r) PROVE FALSE
    BY <1>2 DEF Fails, AnswerLost, Fault
<1>3. ~Restart
    BY DEF Restart, Fault
<1>4. CASE LogOut
    BY <1>0, <1>4 DEF LogOut, LoggedOut, OnDisk, Client
<1>5. CASE UNCHANGED <<row, client, pc, local, alone, spoiled, loggedOut>>
    BY <1>5 DEF DiskInv, OnDisk
<1> QED BY <1>1, <1>2, <1>3, <1>4, <1>5, NextCases

\* A step, neither the removal of the directory nor one that resets loggedOut, that leaves
\* the session sure.
LEMMA SureStep ==
    ASSUME TypeOK, TrustInv, DiskInv, ReadyInv, Sure', NEW r \in Requests,
           Arrives(r) \/ SessionStep(r) \/ SyncStep(r), ~RemoveAll(r), ~Resets(r)
    PROVE  /\ Sure /\ Keeps(client, client')
           /\ row = "connected" => Ready(client')
           /\ \A p \in Requests : Confident(p) => Ready(client')
           /\ client'.authState = "ready" => Ready(client')
<1>1. Sure /\ Keeps(client, client')
    BY Ghosts, StepKeeps DEF Sure
<1>2. Trusty(client') /\ OnDisk(client')
    BY <1>1 DEF Sure, TrustInv, DiskInv, Keeps
<1> QED BY <1>1, <1>2 DEF ReadyInv, Keeps, Trusty, OnDisk, Ready

LEMMA ReadyStep == TypeOK /\ AloneInv /\ TrustInv /\ DeleteInv /\ DiskInv /\ ReadyInv /\ [Next]_vars => ReadyInv'
<1> SUFFICES ASSUME TypeOK, AloneInv, TrustInv, DeleteInv, DiskInv, ReadyInv, [Next]_vars, Sure',
                    row' = "connected" \/ \E p \in Requests : Confident(p)'
             PROVE  Ready(client')
    BY DEF ReadyInv
<1>0. client \in Client /\ ~spoiled' /\ ~loggedOut' /\ StepsTyped
    BY TypeParts DEF Sure
<1>1. ASSUME NEW r \in Requests, Arrives(r) \/ SessionStep(r) \/ SyncStep(r), ~RemoveAll(r), ~Resets(r)
      PROVE  Ready(client')
    <2>0. /\ row = "connected" => Ready(client')
          /\ \A p \in Requests : Confident(p) => Ready(client')
          /\ client'.authState = "ready" => Ready(client')
        BY <1>1, SureStep
    <2>1. CASE row' = "connected"
        <3>1. CASE SaveState(r)
            <4>1. local[r].seen = "ready"
                BY <2>1, <3>1 DEF SaveState, sessionStatus
            <4> QED BY <2>0, <3>1, <4>1 DEF SaveState, Confident
        <3>2. CASE SaveConnection(r)
            BY <2>0, <3>2 DEF SaveConnection, Confident, Syncing
        <3>3. CASE ~SaveState(r) /\ ~SaveConnection(r)
            <4>1. row' = row
                <5>1. CASE Arrives(r)
                    BY <5>1, Shapes
                <5>2. CASE SessionStep(r)
                    BY <1>1, <2>1, <3>3, <5>2 DEF SessionStep, StartClient, SubmitToClient, SubmitRefused, AskState, StopClient, DeleteRow
                <5>3. CASE SyncStep(r)
                    BY <3>3, <5>3 DEF SyncStep, readyClient, SyncFolders, SyncChats, Stores, ListGroups, KnownGroup, FolderGroup,
                                      NewGroup, CreateFails, AddFolderChat, ResolvePublicChat, AttachChannel, sessionVars
                <5> QED BY <1>1, <5>1, <5>2, <5>3
            <4> QED BY <2>0, <2>1, <4>1
        <3> QED BY <3>1, <3>2, <3>3
    <2>2. ASSUME NEW p \in Requests, Confident(p)' PROVE Ready(client')
        <3>1. CASE Arrives(r)
            <4>1. PICK l \in {"start", "phone", "code", "password", "ask", "stop", "check"} : Began(r, l)
                BY <3>1, Shapes
            <4>2. PICK x \in Locals : Begins(r, l, x)
                BY <4>1 DEF Began
            <4>3. l \in Control /\ l # "resolve"
                BY DEF Control, Login, Delete, Syncing
            <4>4. pc'[r] = l /\ \A q \in Requests \ {r} : pc'[q] = pc[q] /\ local'[q] = local[q]
                BY <1>0, <4>2, <4>3, BeginsTyped
            <4>5. p # r
                BY <2>2, <4>4 DEF Confident, Syncing
            <4>6. Confident(p)
                BY <2>2, <4>4, <4>5 DEF Confident
            <4> QED BY <2>0, <4>6
        <3>2. CASE SessionStep(r) /\ p = r
            <4>1. CASE AskState(r)
                <5>1. PICK x : x = [local[r] EXCEPT !.seen = client'.authState]
                    OBVIOUS
                <5>2. PICK l \in {"save", "saveLogin"} : GoesWith(r, l, x)
                    BY <4>1, <5>1 DEF AskState
                <5>3. local'[r] = x /\ pc'[r] = l
                    BY <1>0, <5>2 DEF GoesWith, StepsTyped, WorkType
                <5>4. x.seen = client'.authState
                    BY <1>0, <5>1, LocalParts DEF Locals
                <5>5. client'.authState = "ready"
                    BY <2>2, <3>2, <5>3, <5>4 DEF Confident, Syncing
                <5> QED BY <2>0, <5>5
            <4>2. CASE ~AskState(r)
                <5>1. \E l \in {"askLogin", "ask", "idle", "forget", "remove"} : pc' = [pc EXCEPT ![r] = l]
                    BY <1>1, <3>2, <4>2 DEF SessionStep, StartClient, SubmitToClient, SubmitRefused, SaveState,
                                            StopClient, DeleteRow, Goes, GoesWith, Ends
                <5>2. pc'[r] \in {"askLogin", "ask", "idle", "forget", "remove"}
                    BY <1>0, <5>1 DEF StepsTyped, WorkType
                <5> QED BY <2>2, <3>2, <5>2 DEF Confident, Syncing
            <4> QED BY <4>1, <4>2
        <3>3. CASE SyncStep(r) /\ p = r
            <4>1. CASE readyClient(r)
                <5>1. client'.authState = "ready" \/ Ends(r)
                    BY <4>1 DEF readyClient
                <5>2. Ends(r) => pc'[r] = "idle"
                    BY <1>0, EndsTyped
                <5> QED BY <2>0, <2>2, <3>3, <5>1, <5>2 DEF Confident, Syncing
            <4>2. CASE ~readyClient(r)
                <5>1. pc[r] \in Syncing \ {"check"}
                    BY <3>3, <4>2 DEF SyncStep, SyncFolders, SyncChats, Stores, ListGroups, KnownGroup, FolderGroup, NewGroup,
                                      NextFolder, CreateFails, AddFolderChat, SaveConnection, ResolvePublicChat,
                                      AttachChannel, Syncing
                <5> QED BY <2>0, <5>1 DEF Confident
            <4> QED BY <4>1, <4>2
        <3>4. CASE (SessionStep(r) \/ SyncStep(r)) /\ p # r
            <4>1. pc'[p] = pc[p] /\ local'[p] = local[p]
                <5>1. \A l : Went(r, l) => pc'[p] = pc[p] /\ local'[p] = local[p]
                    BY <1>0, <3>4 DEF Went, GoesWith, StepsTyped, WorkType
                <5>2. Ends(r) => pc'[p] = pc[p] /\ local'[p] = local[p]
                    BY <1>0, <3>4, EndsTyped
                <5>3. \A f \in Folders, x \in Locals : NewGroup(r, f, x) => pc'[p] = pc[p] /\ local'[p] = local[p]
                    BY <1>0, <3>4 DEF NewGroup, StepsTyped, WorkType
                <5> QED BY <3>4, <5>1, <5>2, <5>3, Shapes DEF Ended
            <4>2. Confident(p)
                BY <2>2, <4>1 DEF Confident
            <4> QED BY <2>0, <4>2
        <3> QED BY <1>1, <3>1, <3>2, <3>3, <3>4
    <2> QED BY <2>1, <2>2
<1>2. ASSUME NEW r \in Requests, RemoveAll(r) PROVE FALSE
    <2>1. r \in alone /\ row = "none" /\ row' = row /\ Ends(r)
        BY <1>0, <1>2 DEF RemoveAll, DeleteInv
    <2>2. \A p \in Requests : pc'[p] = "idle"
        BY <1>0, <2>1, EndsTyped DEF AloneInv, Busy
    <2>3. \A p \in Requests : ~Confident(p)'
        BY <2>2 DEF Confident, Syncing
    <2> QED BY <2>1, <2>3
<1>3. ASSUME NEW r \in Requests, Fails(r) \/ AnswerLost(r) PROVE FALSE
    BY <1>0, <1>3 DEF Fails, AnswerLost, Fault
<1>4. ASSUME NEW r \in Requests, Resets(r) PROVE FALSE
    <2>1. r \in alone /\ row' # "connected" /\ \E l \in {"idle", "remove"} : pc' = [pc EXCEPT ![r] = l]
        BY <1>4 DEF Resets, SaveState, DeleteRow, Ends, Goes, GoesWith
    <2>2. \A p \in Requests : pc'[p] \in {"idle", "remove"}
        BY <1>0, <2>1 DEF AloneInv, Busy, StepsTyped, WorkType
    <2>3. \A p \in Requests : ~Confident(p)'
        BY <2>2 DEF Confident, Syncing
    <2> QED BY <2>1, <2>3
<1>5. ~LogOut /\ ~Restart
    BY <1>0 DEF LogOut, Restart, Fault
<1>6. CASE UNCHANGED <<row, client, pc, local, alone, spoiled, loggedOut>>
    <2>1. Sure
        BY <1>0, <1>6 DEF Sure
    <2>2. \A p \in Requests : Confident(p)' => Confident(p)
        BY <1>6 DEF Confident
    <2> QED BY <1>6, <2>1, <2>2 DEF ReadyInv, Ready
<1> QED BY <1>1, <1>2, <1>3, <1>4, <1>5, <1>6, NextCases

LEMMA LeftStep == TypeOK /\ AloneInv /\ DeleteInv /\ LeftInv /\ [Next]_vars => LeftInv'
<1> DEFINE L == /\ \A p \in Requests : Busy(p) => pc[p] \in Rowless
                /\ Quiet => ~client.handle /\ client.files = "none"
<1> SUFFICES ASSUME TypeOK, AloneInv, DeleteInv, LeftInv, [Next]_vars, row' = "none", ~spoiled' PROVE L'
    BY DEF LeftInv
<1>0. client \in Client /\ StepsTyped
    BY TypeParts
<1>1. ASSUME NEW r \in Requests, RemoveAll(r) PROVE L'
    <2>1. r \in alone /\ Ends(r) /\ ~client.handle /\ client' = [client EXCEPT !.files = "none"]
        BY <1>1 DEF RemoveAll, DeleteInv
    <2>2. \A p \in Requests : pc'[p] = "idle"
        BY <1>0, <2>1, EndsTyped DEF AloneInv, Busy
    <2> QED BY <1>0, <2>1, <2>2 DEF Busy, Client
<1>2. ASSUME NEW r \in Requests, DeleteRow(r) PROVE L'
    <2>1. r \in alone /\ pc' = [pc EXCEPT ![r] = "remove"]
        BY <1>2 DEF DeleteRow, Goes, GoesWith
    <2>2. pc'[r] = "remove" /\ \A p \in Requests \ {r} : pc'[p] = "idle"
        BY <1>0, <2>1 DEF AloneInv, Busy, StepsTyped, WorkType
    <2> QED BY <2>2 DEF Busy, Quiet, Rowless
<1>3. ASSUME NEW r \in Requests, Arrives(r) \/ SessionStep(r) \/ SyncStep(r), ~RemoveAll(r), ~DeleteRow(r) PROVE L'
    <2>1. row = "none"
        BY <1>3, Shapes
    <2>2. ~spoiled /\ L
        BY <1>3, <2>1, Ghosts DEF LeftInv
    <2>3. \E l \in Rowless : pc' = [pc EXCEPT ![r] = l]
        <3>1. CASE Arrives(r)
            BY <2>1, <3>1, Shapes DEF Began, Begins, Rowless
        <3>2. CASE SessionStep(r)
            <4>1. \/ pc[r] = "start" /\ Went(r, "askLogin")
                  \/ pc[r] = "askLogin" /\ Went(r, "saveLogin")
                BY <1>3, <2>1, <2>2, <3>2, Shapes DEF Ended, Went
            <4> QED BY <4>1 DEF Went, GoesWith, Rowless
        <3>3. CASE SyncStep(r)
            BY <2>2, <3>3, Shapes DEF Rowless, Syncing, Busy
        <3> QED BY <1>3, <3>1, <3>2, <3>3
    <2>4. pc'[r] \in Rowless /\ pc'[r] # "idle" /\ \A p \in Requests \ {r} : pc'[p] = pc[p]
        BY <1>0, <2>3 DEF StepsTyped, WorkType, Rowless
    <2> QED BY <2>2, <2>4 DEF Busy, Quiet
<1>4. ASSUME NEW r \in Requests, Fails(r) \/ AnswerLost(r) PROVE FALSE
    BY <1>4 DEF Fails, AnswerLost, Fault
<1>5. CASE LogOut
    <2>1. row = "none" /\ ~spoiled /\ client.handle /\ pc' = pc
        BY <1>5 DEF LogOut, stepVars
    <2>2. L /\ ~Quiet
        BY <2>1 DEF LeftInv
    <2> QED BY <2>1, <2>2 DEF Busy, Quiet
<1>6. ~Restart
    BY DEF Restart, Fault
<1>7. CASE UNCHANGED <<row, client, pc, local, alone, spoiled, loggedOut>>
    BY <1>7 DEF LeftInv, Busy, Quiet
<1> QED BY <1>1, <1>2, <1>3, <1>4, <1>5, <1>6, <1>7, NextCases

LEMMA ClientAlways == Spec => []ClientInv
<1>1. Init => ClientInv
    BY DEF Init, NewNativeClient, ClientInv, AloneInv, HeldInv, Held, SeenInv, TrustInv, Trusty, DeleteInv, DiskInv, OnDisk, ReadyInv, Confident,
           Syncing, LeftInv, Busy
<1>2. TypeOK /\ ClientInv /\ [Next]_vars => ClientInv'
    BY AloneStep, HeldStep, SeenStep, TrustStep, DeleteStep, DiskStep, ReadyStep, LeftStep DEF ClientInv
<1> QED BY <1>1, <1>2, TypeCorrect, PTL DEF Spec

\* A row says connected only of an authorized TDLib whose database is in the directory, but
\* for the time from a logout elsewhere to the next write that shows it (auth.go:
\* refreshSession; sync.go: UpdateStatus; client.go).
THEOREM ConnectedMeansReady == Spec => []ConnectedIsReady
<1>1. ClientInv => ConnectedIsReady
    BY DEF ClientInv, ReadyInv, Sure, Ready, ConnectedIsReady
<1> QED BY <1>1, ClientAlways, PTL

\* A deletion that met nobody leaves neither a handle nor the directory (auth.go: DeleteSession).
THEOREM DeletionIsWhole == Spec => []NothingLeftBehind
<1>1. ClientInv => NothingLeftBehind
    BY DEF ClientInv, LeftInv, NothingLeftBehind
<1> QED BY <1>1, ClientAlways, PTL

-----------------------------------------------------------------------------
\* The groups.

IndexOK(r) == pc[r] = "fill" /\ r \notin overtaken =>
                  \A n \in Names : local[r].known[n] = 0 => Named(n) = {}

IndexInv == \A r \in Requests : IndexOK(r)

CatalogInv == \A r \in Requests : pc[r] \in {"groups", "fill"} => AllChats \ Private \subseteq catalog

Covered(f, x) == \E g \in Named(NameOf[f]) : {g} \X (Content[f] \ Private) \subseteq members \cup x.links

FillOK(r) == pc[r] = "fill" /\ r \notin edited =>
                 /\ \A n \in Names : local[r].known[n] # 0 => local[r].known[n] \in Named(n)
                 /\ \A f \in local[r].folders \ local[r].todo : Covered(f, local[r])

FillInv == \A r \in Requests : FillOK(r)

GroupsInv == NoTwinGroups /\ IndexInv /\ CatalogInv /\ FillInv

Acts(r) == Arrives(r) \/ SessionStep(r) \/ SyncStep(r) \/ Fails(r) \/ AnswerLost(r)

LEMMA OthersStay ==
    ASSUME TypeOK, NEW r \in Requests, NEW q \in Requests \ {r}, Acts(r)
    PROVE  /\ pc'[q] = pc[q] /\ local'[q] = local[q]
           /\ q \in edited' <=> q \in edited
           /\ q \in overtaken => q \in overtaken'
<1>0. StepsTyped
    BY TypeParts
<1>1. ASSUME Ends(r) PROVE /\ pc'[q] = pc[q] /\ local'[q] = local[q]
                           /\ q \in edited' <=> q \in edited
                           /\ q \in overtaken => q \in overtaken'
    BY <1>0, <1>1, EndsTyped
<1>2. ASSUME NEW l, Went(r, l) \/ Began(r, l)
      PROVE  /\ pc'[q] = pc[q] /\ local'[q] = local[q]
             /\ q \in edited' <=> q \in edited
             /\ q \in overtaken => q \in overtaken'
    BY <1>0, <1>2 DEF Went, Began, GoesWith, Begins, StepsTyped, WorkType
<1>3. ASSUME NEW f \in Folders, NEW x \in Locals, NewGroup(r, f, x)
      PROVE  /\ pc'[q] = pc[q] /\ local'[q] = local[q]
             /\ q \in edited' <=> q \in edited
             /\ q \in overtaken => q \in overtaken'
    BY <1>0, <1>3 DEF NewGroup, Overtakes, StepsTyped, WorkType
<1>4. CASE Arrives(r)
    BY <1>2, <1>4, Shapes
<1>5. CASE SessionStep(r)
    BY <1>1, <1>2, <1>5, Shapes DEF Ended
<1>6. CASE SyncStep(r)
    BY <1>1, <1>2, <1>3, <1>6, Shapes DEF Ended
<1>7. CASE Fails(r) \/ AnswerLost(r)
    BY <1>1, <1>7 DEF Fails, AnswerLost
<1> QED BY <1>4, <1>5, <1>6, <1>7 DEF Acts

\* Steps of requests only add to the groups.
LEMMA GroupsGrow ==
    ASSUME TypeOK, NEW r \in Requests, Acts(r)
    PROVE  /\ members \subseteq members' /\ catalog \subseteq catalog'
           /\ \/ UNCHANGED <<name, own, raced>>
              \/ \E f \in Folders : FolderGroup(r, f)
<1>1. CASE Arrives(r)
    BY <1>1 DEF Arrives, Start, Submit, Status, DeleteSession, Sync, AddPublicChannel, Connected, Apart, groupVars
<1>2. CASE SessionStep(r)
    BY <1>2 DEF SessionStep, StartClient, SubmitToClient, SubmitRefused, AskState, SaveState, StopClient,
                DeleteRow, RemoveAll, Apart, groupVars
<1>3. CASE readyClient(r) \/ SyncFolders(r) \/ ListGroups(r) \/ CreateFails(r) \/ SaveConnection(r)
    BY <1>3 DEF readyClient, SyncFolders, ListGroups, CreateFails, SaveConnection, Apart, groupVars
<1>4. CASE SyncChats(r) \/ ResolvePublicChat(r)
    BY <1>4 DEF SyncChats, Stores, ResolvePublicChat, UpsertMany
<1>5. CASE AddFolderChat(r) \/ AttachChannel(r)
    BY <1>5 DEF AddFolderChat, AttachChannel, AddChat
<1>6. CASE \E f \in Folders : KnownGroup(r, f)
    BY <1>6 DEF KnownGroup, Apart, groupVars
<1>7. CASE \E f \in Folders : FolderGroup(r, f)
    BY <1>7 DEF FolderGroup, NewGroup
<1>8. CASE Fails(r) \/ AnswerLost(r)
    BY <1>8 DEF Fails, AnswerLost, Fault, groupVars
<1> QED BY <1>1, <1>2, <1>3, <1>4, <1>5, <1>6, <1>7, <1>8 DEF Acts, SyncStep

\* A new group leaves the others their names.
LEMMA NewName ==
    ASSUME TypeOK, NEW r \in Requests, NEW f \in Folders, FolderGroup(r, f)
    PROVE  /\ created' \in GroupIds /\ ~Exists(created') /\ name' = [name EXCEPT ![created'] = NameOf[f]]
           /\ local[r].known[NameOf[f]] = 0 /\ NameOf[f] \in Names
           /\ \A n \in Names : n # NameOf[f] => Named(n)' = Named(n)
           /\ \A n \in Names : Named(n) \subseteq Named(n)'
           /\ local' = [local EXCEPT ![r] = [local[r] EXCEPT !.known[NameOf[f]] = created',
                                                             !.links = Links(created', f), !.todo = @ \ {f}]]
<1>1. PICK g : g = created'
    OBVIOUS
<1>2. NewGroup(r, f, [local[r] EXCEPT !.known[NameOf[f]] = g, !.links = Links(g, f), !.todo = @ \ {f}])
    BY <1>1 DEF FolderGroup
<1>3. g \in GroupIds /\ StepsTyped /\ GroupsTyped
    BY <1>1, <1>2, TypeParts, SourceGroupsAssumption DEF NewGroup, Create, GroupsTyped, GroupType, GroupIds
<1>4. [local[r] EXCEPT !.known[NameOf[f]] = g, !.links = Links(g, f), !.todo = @ \ {f}] \in Locals
    BY <1>3, NewLocals, LocalParts
<1>5. PICK x \in Locals : x = [local[r] EXCEPT !.known[NameOf[f]] = g, !.links = Links(g, f), !.todo = @ \ {f}]
    BY <1>4
<1>6. NewGroup(r, f, x)
    BY <1>2, <1>5
<1>7. ~Exists(created') /\ name' = [name EXCEPT ![created'] = NameOf[f]]
    BY <1>6, NewGroupTyped
<1>8. name[g] = NoName /\ name' = [name EXCEPT ![g] = NameOf[f]] /\ NameOf[f] \in Names /\ NoName \notin Names
    BY <1>1, <1>7, SessionAssumption, SourceGroupsAssumption DEF Exists
<1>9. \A n \in Names : (n # NameOf[f] => Named(n)' = Named(n)) /\ Named(n) \subseteq Named(n)'
    BY <1>3, <1>8 DEF Named, GroupsTyped, GroupType
<1>10. local[r].known[NameOf[f]] = 0 /\ local' = [local EXCEPT ![r] = x]
    BY <1>6 DEF NewGroup
<1> QED BY <1>1, <1>3, <1>5, <1>7, <1>8, <1>9, <1>10

-----------------------------------------------------------------------------
\* One group of a name.

LEMMA IndexStays ==
    ASSUME NEW q \in Requests, IndexOK(q), pc'[q] = pc[q], local'[q] = local[q],
           q \in overtaken => q \in overtaken', \A n \in Names : Named(n)' \subseteq Named(n)
    PROVE  IndexOK(q)'
BY DEF IndexOK

LEMMA IndexOthers ==
    ASSUME TypeOK, IndexInv, NEW r \in Requests, Acts(r), NEW q \in Requests \ {r}
    PROVE  IndexOK(q)'
<1>1. /\ pc'[q] = pc[q] /\ local'[q] = local[q] /\ (q \in overtaken => q \in overtaken') /\ IndexOK(q)
    BY OthersStay DEF IndexInv
<1>2. CASE name' = name
    BY <1>1, <1>2, IndexStays DEF Named
<1>3. CASE \E f \in Folders : FolderGroup(r, f)
    <2>1. q \in Filling => q \in overtaken'
        BY <1>3 DEF FolderGroup, NewGroup, Overtakes
    <2> QED BY <1>1, <2>1 DEF IndexOK, Filling
<1> QED BY <1>2, <1>3, GroupsGrow

\* Only these steps of a request are inside the loop over the folders afterwards.
LEMMA FillingSteps ==
    ASSUME TypeOK, NEW r \in Requests, Acts(r), ~ListGroups(r), ~AddFolderChat(r),
           ~\E f \in Folders : KnownGroup(r, f) \/ FolderGroup(r, f)
    PROVE  pc'[r] # "fill"
<1>0. StepsTyped
    BY TypeParts
<1>1. CASE Arrives(r)
    <2>1. PICK l \in {"start", "phone", "code", "password", "ask", "stop", "check"} : Began(r, l)
        BY <1>1, Shapes
    <2> QED BY <1>0, <2>1 DEF Began, Begins, StepsTyped, WorkType
<1>2. CASE SessionStep(r)
    <2>1. Ended(r) \/ \E l \in {"askLogin", "saveLogin", "ask", "save", "forget", "remove"} : Went(r, l)
        BY <1>2, Shapes
    <2> QED BY <1>0, <2>1, EndsTyped DEF Ended, Went, GoesWith, StepsTyped, WorkType
<1>3. CASE Ends(r)
    BY <1>0, <1>3, EndsTyped
<1>4. CASE SyncStep(r) /\ ~Ends(r)
    <2>1. \E l \in {"folders", "chats", "groups", "resolve", "attach"} : pc' = [pc EXCEPT ![r] = l]
        BY <1>4 DEF SyncStep, readyClient, SyncFolders, SyncChats, Stores, CreateFails,
                          SaveConnection, ResolvePublicChat, AttachChannel, Goes, GoesWith
    <2> QED BY <1>0, <2>1 DEF StepsTyped, WorkType
<1> QED BY <1>1, <1>2, <1>3, <1>4 DEF Acts, Fails, AnswerLost

LEMMA IndexMine ==
    ASSUME TypeOK, IndexInv, NEW r \in Requests, Acts(r)
    PROVE  IndexOK(r)'
<1>0. StepsTyped /\ IndexOK(r)
    BY TypeParts DEF IndexInv
<1>1. CASE ListGroups(r)
    <2>1. PICK k \in [Names -> GroupIds \cup {0}] :
              /\ IsIndex(k)
              /\ GoesWith(r, "fill", [local[r] EXCEPT !.known = k, !.todo = local[r].folders])
        BY <1>1 DEF ListGroups
    <2>2. local'[r].known = k
        BY <1>0, <2>1, LocalParts DEF GoesWith, StepsTyped, WorkType, Locals
    <2>3. \A n \in Names : Named(n)' = Named(n)
        BY <1>1 DEF ListGroups, Apart, groupVars, Named
    <2>4. 0 \notin GroupIds
        BY DEF GroupIds
    <2>5. \A n \in Names : k[n] = 0 => Named(n) = {}
        BY <2>1, <2>4 DEF IsIndex, Named
    <2> QED BY <2>2, <2>3, <2>5 DEF IndexOK
<1>2. CASE \E f \in Folders : FolderGroup(r, f)
    <2>1. PICK f \in Folders : FolderGroup(r, f)
        BY <1>2
    <2>2. /\ NameOf[f] \in Names /\ created' \in GroupIds
          /\ \A n \in Names : n # NameOf[f] => Named(n)' = Named(n)
          /\ local' = [local EXCEPT ![r] = [local[r] EXCEPT !.known[NameOf[f]] = created',
                                                            !.links = Links(created', f), !.todo = @ \ {f}]]
        BY <2>1, NewName
    <2>3. local'[r].known = [local[r].known EXCEPT ![NameOf[f]] = created']
        BY <1>0, <2>2, LocalParts DEF StepsTyped, WorkType, Locals
    <2>4. created' # 0
        BY <2>2 DEF GroupIds
    <2>5. \A n \in Names : local'[r].known[n] = 0 => n # NameOf[f] /\ local[r].known[n] = 0
        BY <1>0, <2>2, <2>3, <2>4, LocalParts
    <2>6. pc'[r] = pc[r] /\ (r \in overtaken => r \in overtaken')
        BY <2>1 DEF FolderGroup, NewGroup, Overtakes
    <2> QED BY <1>0, <2>2, <2>5, <2>6 DEF IndexOK
<1>3. CASE AddFolderChat(r) \/ \E f \in Folders : KnownGroup(r, f)
    <2>1. pc[r] = "fill" /\ name' = name
        BY <1>3 DEF AddFolderChat, KnownGroup, NextFolder, Apart, groupVars
    <2>2. pc'[r] = "fill" => local'[r].known = local[r].known /\ overtaken' = overtaken
        <3>1. CASE Ends(r)
            BY <1>0, <3>1, EndsTyped
        <3>2. CASE AddFolderChat(r) /\ ~Ends(r)
            <4>1. PICK m : GoesWith(r, "fill", [local[r] EXCEPT !.links = @ \ {m}])
                BY <3>2 DEF AddFolderChat
            <4> QED BY <1>0, <4>1, LocalParts DEF GoesWith, StepsTyped, WorkType, Locals
        <3>3. CASE \E f \in Folders : KnownGroup(r, f)
            <4>1. PICK f \in Folders : \E g : GoesWith(r, "fill", [local[r] EXCEPT !.links = Links(g, f), !.todo = @ \ {f}])
                BY <3>3 DEF KnownGroup
            <4> QED BY <1>0, <4>1, LocalParts DEF GoesWith, StepsTyped, WorkType, Locals
        <3> QED BY <1>3, <3>1, <3>2, <3>3
    <2> QED BY <1>0, <2>1, <2>2 DEF IndexOK, Named
<1>4. CASE ~ListGroups(r) /\ ~AddFolderChat(r) /\ ~\E f \in Folders : KnownGroup(r, f) \/ FolderGroup(r, f)
    BY <1>4, FillingSteps DEF IndexOK
<1> QED BY <1>1, <1>2, <1>3, <1>4

\* What the owner does to the groups, and what has nothing to do with them.
LEMMA OwnerCases ==
    ASSUME [Next]_vars
    PROVE  \/ \E r \in Requests : Acts(r)
           \/ OwnerNames
           \/ OwnerEdits
           \/ Restart
           \/ UNCHANGED <<name, own, raced, catalog, stepVars>> /\ members \subseteq members'
<1>1. CASE OwnerAdds
    BY <1>1 DEF OwnerAdds, AddGroupChat, AddChat
<1>2. CASE LogOut
    BY <1>2 DEF LogOut, groupVars
<1>3. CASE UNCHANGED vars
    BY <1>3 DEF vars, groupVars
<1> QED BY <1>1, <1>2, <1>3 DEF Next, Acts

LEMMA IndexStep == TypeOK /\ IndexInv /\ [Next]_vars => IndexInv'
<1> SUFFICES ASSUME TypeOK, IndexInv, [Next]_vars, NEW q \in Requests PROVE IndexOK(q)'
    BY DEF IndexInv
<1>0. IndexOK(q)
    BY DEF IndexInv
<1>1. ASSUME NEW r \in Requests, Acts(r) PROVE IndexOK(q)'
    BY <1>1, IndexMine, IndexOthers
<1>2. CASE OwnerNames
    BY <1>2 DEF OwnerNames, Filling, IndexOK
<1>3. CASE OwnerEdits
    <2>1. \A n \in Names : Named(n)' \subseteq Named(n)
        <3>1. name' = name \/ \E g \in GroupIds : name' = [name EXCEPT ![g] = NoName]
            BY <1>3 DEF OwnerEdits, DeleteGroup, RemoveGroupChat
        <3>2. name \in [GroupIds -> Names \cup {NoName}] /\ NoName \notin Names
            BY TypeParts, SourceGroupsAssumption DEF GroupsTyped, GroupType
        <3> QED BY <3>1, <3>2 DEF Named
    <2>2. pc'[q] = pc[q] /\ local'[q] = local[q] /\ overtaken' = overtaken
        BY <1>3 DEF OwnerEdits
    <2> QED BY <1>0, <2>1, <2>2, IndexStays
<1>4. CASE Restart
    BY <1>4 DEF Restart, IndexOK
<1>5. CASE UNCHANGED <<name, own, raced, catalog, stepVars>>
    BY <1>0, <1>5, IndexStays DEF stepVars, Named
<1> QED BY <1>1, <1>2, <1>3, <1>4, <1>5, OwnerCases

LEMMA TwinStep == TypeOK /\ IndexInv /\ NoTwinGroups /\ [Next]_vars => NoTwinGroups'
<1> SUFFICES ASSUME TypeOK, IndexInv, NoTwinGroups, [Next]_vars,
                    NEW g \in GroupIds, NEW h \in GroupIds,
                    g \notin own' \cup raced', h \notin own' \cup raced', name'[g] # NoName, name'[g] = name'[h]
             PROVE  g = h
    BY DEF NoTwinGroups, Exists
<1>0. name \in [GroupIds -> Names \cup {NoName}] /\ NoName \notin Names
    BY TypeParts, SourceGroupsAssumption DEF GroupsTyped, GroupType
<1>1. ASSUME own \subseteq own', raced \subseteq raced', name[g] = name'[g], name[h] = name'[h] PROVE g = h
    BY <1>1 DEF NoTwinGroups, Exists
<1>2. CASE UNCHANGED <<name, own, raced>>
    BY <1>1, <1>2
<1>3. ASSUME NEW r \in Requests, NEW f \in Folders, FolderGroup(r, f) PROVE g = h
    <2>1. /\ created' \in GroupIds /\ name' = [name EXCEPT ![created'] = NameOf[f]]
          /\ local[r].known[NameOf[f]] = 0 /\ NameOf[f] \in Names
        BY <1>3, NewName
    <2>2. /\ pc[r] = "fill" /\ own' = own
          /\ raced' = IF r \in overtaken THEN raced \cup {created'} ELSE raced
        BY <1>3 DEF FolderGroup, NewGroup, NextFolder
    <2>3. CASE r \in overtaken
        <3>1. g # created' /\ h # created'
            BY <2>2, <2>3
        <3> QED BY <1>0, <1>1, <2>1, <2>2, <2>3, <3>1
    <2>4. CASE r \notin overtaken
        <3>1. Named(NameOf[f]) = {}
            BY <2>1, <2>2, <2>4 DEF IndexInv, IndexOK
        <3>2. \A i \in GroupIds : name[i] # NameOf[f]
            BY <3>1 DEF Named
        <3>3. g = created' <=> h = created'
            BY <1>0, <2>1, <3>2
        <3> QED BY <1>0, <1>1, <2>1, <2>2, <2>4, <3>3
    <2> QED BY <2>3, <2>4
<1>4. CASE OwnerNames
    <2>1. PICK i \in GroupIds : /\ \E n \in Names : name' = [name EXCEPT ![i] = n]
                                /\ own' = own \cup {i}
        <3>1. CASE \E n \in Names : CreateGroup(n)
            <4>1. created' = created + 1 /\ created + 1 \in GroupIds
                BY <3>1, TypeParts, SourceGroupsAssumption DEF CreateGroup, Create, GroupsTyped, GroupType, GroupIds
            <4> QED BY <3>1, <4>1 DEF CreateGroup, Create
        <3>2. CASE \E i \in GroupIds, n \in Names : UpdateGroup(i, n)
            BY <3>2 DEF UpdateGroup
        <3> QED BY <1>4, <3>1, <3>2 DEF OwnerNames
    <2>2. g # i /\ h # i /\ raced' = raced
        BY <1>4, <2>1 DEF OwnerNames
    <2> QED BY <1>0, <1>1, <2>1, <2>2
<1>5. CASE OwnerEdits
    <2>1. UNCHANGED <<own, raced>>
        BY <1>5 DEF OwnerEdits, DeleteGroup, RemoveGroupChat
    <2>2. name' = name \/ \E i \in GroupIds : name' = [name EXCEPT ![i] = NoName]
        BY <1>5 DEF OwnerEdits, DeleteGroup, RemoveGroupChat
    <2>3. name[g] = name'[g] /\ name[h] = name'[h]
        BY <1>0, <2>2
    <2> QED BY <1>1, <2>1, <2>3
<1>6. CASE Restart
    BY <1>2, <1>6 DEF Restart, Fault, groupVars
<1> QED BY <1>2, <1>3, <1>4, <1>5, <1>6, OwnerCases, GroupsGrow

-----------------------------------------------------------------------------
\* What a sync puts into the groups.

LEMMA CatalogStep == TypeOK /\ CatalogInv /\ [Next]_vars => CatalogInv'
<1> SUFFICES ASSUME TypeOK, CatalogInv, [Next]_vars, NEW q \in Requests, pc'[q] \in {"groups", "fill"}
             PROVE  AllChats \ Private \subseteq catalog'
    BY DEF CatalogInv, AllChats
<1>0. StepsTyped
    BY TypeParts
<1>1. ASSUME catalog \subseteq catalog', pc[q] \in {"groups", "fill"} PROVE AllChats \ Private \subseteq catalog'
    BY <1>1 DEF CatalogInv
<1>2. ASSUME NEW r \in Requests, Acts(r) PROVE AllChats \ Private \subseteq catalog'
    <2>0. catalog \subseteq catalog'
        BY <1>2, GroupsGrow
    <2>1. CASE q # r
        BY <1>1, <1>2, <2>0, <2>1, OthersStay
    <2>2. CASE q = r /\ ~SyncStep(r)
        <3>1. Ends(r) => pc'[r] = "idle"
            BY <1>0, EndsTyped
        <3>2. \A l : Went(r, l) \/ Began(r, l) => pc'[r] = l
            BY <1>0 DEF Went, Began, GoesWith, Begins, StepsTyped, WorkType
        <3>3. \/ Ends(r)
              \/ \E l \in {"start", "phone", "code", "password", "ask", "stop", "check", "askLogin", "saveLogin", "save",
                           "forget", "remove"} : Went(r, l) \/ Began(r, l)
            BY <1>2, <2>2, Shapes DEF Acts, Ended, Fails, AnswerLost
        <3> QED BY <2>2, <3>1, <3>2, <3>3
    <2>3. CASE q = r /\ SyncStep(r)
        <3>1. CASE SyncChats(r)
            <4>1. Ends(r) => pc'[r] = "idle"
                BY <1>0, EndsTyped
            <4>2. UpsertMany(AllChats \ Private)
                BY <2>3, <3>1, <4>1 DEF SyncChats, Stores
            <4> QED BY <4>2 DEF UpsertMany
        <3>2. CASE pc[r] \in {"groups", "fill"}
            BY <1>1, <2>0, <2>3, <3>2
        <3>3. CASE ~SyncChats(r) /\ pc[r] \notin {"groups", "fill"}
            <4>1. Ends(r) \/ \E l \in {"folders", "chats", "resolve", "attach"} : pc' = [pc EXCEPT ![r] = l]
                BY <2>3, <3>3 DEF SyncStep, readyClient, SyncFolders, ListGroups, KnownGroup, FolderGroup, NewGroup,
                                  NextFolder, CreateFails, AddFolderChat, SaveConnection, ResolvePublicChat,
                                  AttachChannel, Goes, GoesWith
            <4>2. pc'[r] \in {"idle", "folders", "chats", "resolve", "attach"}
                BY <1>0, <4>1, EndsTyped DEF StepsTyped, WorkType
            <4> QED BY <2>3, <4>2
        <3> QED BY <3>1, <3>2, <3>3
    <2> QED BY <2>1, <2>2, <2>3
<1>3. CASE OwnerNames \/ OwnerEdits
    BY <1>1, <1>3 DEF OwnerNames, OwnerEdits, CreateGroup, UpdateGroup, DeleteGroup, RemoveGroupChat
<1>4. CASE Restart
    BY <1>4 DEF Restart
<1>5. CASE UNCHANGED <<name, own, raced, catalog, stepVars>>
    BY <1>1, <1>5 DEF stepVars
<1> QED BY <1>2, <1>3, <1>4, <1>5, OwnerCases

LEMMA FillStays ==
    ASSUME NEW q \in Requests, FillOK(q), local[q].folders \subseteq Folders, pc'[q] = pc[q], local'[q] = local[q], q \in edited => q \in edited',
           members \subseteq members', \A n \in Names : Named(n) \subseteq Named(n)'
    PROVE  FillOK(q)'
<1> SUFFICES ASSUME pc'[q] = "fill", q \notin edited' PROVE FillOK(q)'
    BY DEF FillOK
<1>1. /\ \A n \in Names : local[q].known[n] # 0 => local[q].known[n] \in Named(n)
      /\ \A f \in local[q].folders \ local[q].todo : Covered(f, local[q])
    BY DEF FillOK
<1>2. ASSUME NEW f \in local[q].folders \ local[q].todo
      PROVE  \E g \in Named(NameOf[f])' : {g} \X (Content[f] \ Private) \subseteq members' \cup local[q].links
    <2>1. PICK g \in Named(NameOf[f]) : {g} \X (Content[f] \ Private) \subseteq members \cup local[q].links
        BY <1>1, <1>2 DEF Covered
    <2>2. g \in Named(NameOf[f])'
        BY <1>2, <2>1, SessionAssumption
    <2>3. {g} \X (Content[f] \ Private) \subseteq members' \cup local[q].links
        BY <2>1
    <2> QED BY <2>2, <2>3
<1> QED BY <1>1, <1>2 DEF FillOK, Covered

\* A folder whose chats are all in the catalog is covered by a group its links go to.
LEMMA LinksCover ==
    ASSUME NEW f \in Folders, NEW g, AllChats \ Private \subseteq catalog
    PROVE  Links(g, f) = {g} \X (Content[f] \ Private)
<1>1. Content[f] \subseteq AllChats
    BY DEF AllChats
<1>2. (Content[f] \cap catalog) \ Private = Content[f] \ Private
    BY <1>1
<1> QED BY <1>2 DEF Links

LEMMA FillMine ==
    ASSUME TypeOK, CatalogInv, FillInv, NEW r \in Requests, Acts(r), pc'[r] = "fill", r \notin edited'
    PROVE  FillOK(r)'
<1>0. /\ StepsTyped /\ GroupsTyped /\ local[r] \in Locals /\ local[r].known \in [Names -> GroupIds \cup {0}]
      /\ NoName \notin Names /\ FillOK(r) /\ local[r].folders \subseteq Folders
    BY TypeParts, LocalParts, SourceGroupsAssumption DEF FillInv
<1>1. CASE ListGroups(r)
    <2>1. PICK k \in [Names -> GroupIds \cup {0}] :
              /\ IsIndex(k)
              /\ GoesWith(r, "fill", [local[r] EXCEPT !.known = k, !.todo = local[r].folders])
        BY <1>1 DEF ListGroups
    <2>2. local'[r].known = k /\ local'[r].todo = local[r].folders /\ local'[r].folders = local[r].folders
        BY <1>0, <2>1 DEF GoesWith, StepsTyped, WorkType, Locals
    <2>3. name' = name
        BY <1>1 DEF ListGroups, Apart, groupVars
    <2>4. \A n \in Names : k[n] # 0 => k[n] \in Named(n)'
        BY <2>1, <2>3 DEF IsIndex, Named
    <2> QED BY <2>2, <2>4 DEF FillOK
<1>2. CASE \E f \in Folders : KnownGroup(r, f)
    <2>1. PICK f \in Folders : KnownGroup(r, f)
        BY <1>2
    <2>2. PICK g : g = local[r].known[NameOf[f]]
        OBVIOUS
    <2>3. /\ pc[r] = "fill" /\ local[r].links = {} /\ g # 0 /\ r \notin edited
          /\ GoesWith(r, "fill", [local[r] EXCEPT !.links = Links(g, f), !.todo = @ \ {f}])
          /\ name' = name /\ members' = members
        BY <2>1, <2>2 DEF KnownGroup, NextFolder, GoesWith, Apart, groupVars
    <2>4. /\ local'[r].known = local[r].known /\ local'[r].todo = local[r].todo \ {f}
          /\ local'[r].links = Links(g, f) /\ local'[r].folders = local[r].folders
        BY <1>0, <2>3 DEF GoesWith, StepsTyped, WorkType, Locals
    <2>5. NameOf[f] \in Names /\ g \in Named(NameOf[f])
        BY <1>0, <2>2, <2>3, SessionAssumption DEF FillOK
    <2>6. Links(g, f) = {g} \X (Content[f] \ Private)
        BY <2>3, LinksCover DEF CatalogInv
    <2>7. \A n \in Names : Named(n)' = Named(n)
        BY <2>3 DEF Named
    <2>8. ASSUME NEW e \in local'[r].folders \ local'[r].todo
          PROVE  \E i \in Named(NameOf[e])' : {i} \X (Content[e] \ Private) \subseteq members' \cup local'[r].links
        <3>1. CASE e = f
            BY <2>4, <2>5, <2>6, <2>7, <3>1
        <3>2. CASE e # f
            <4>1. Covered(e, local[r]) /\ NameOf[e] \in Names
                BY <1>0, <2>3, <2>4, <2>8, <3>2, SessionAssumption DEF FillOK
            <4> QED BY <2>3, <2>7, <4>1 DEF Covered
        <3> QED BY <3>1, <3>2
    <2>9. \A n \in Names : local'[r].known[n] # 0 => local'[r].known[n] \in Named(n)'
        BY <1>0, <2>3, <2>4, <2>7 DEF FillOK
    <2> QED BY <2>8, <2>9 DEF FillOK, Covered
<1>3. CASE \E f \in Folders : FolderGroup(r, f)
    <2>1. PICK f \in Folders : FolderGroup(r, f)
        BY <1>3
    <2>2. PICK g : g = created'
        OBVIOUS
    <2>3. /\ g \in GroupIds /\ name' = [name EXCEPT ![g] = NameOf[f]] /\ NameOf[f] \in Names
          /\ \A n \in Names : Named(n) \subseteq Named(n)'
          /\ local' = [local EXCEPT ![r] = [local[r] EXCEPT !.known[NameOf[f]] = g,
                                                            !.links = Links(g, f), !.todo = @ \ {f}]]
        BY <2>1, <2>2, NewName
    <2>4. pc[r] = "fill" /\ local[r].links = {} /\ r \notin edited /\ members' = members
        BY <2>1 DEF FolderGroup, NewGroup, NextFolder
    <2>5. /\ local'[r].known = [local[r].known EXCEPT ![NameOf[f]] = g] /\ local'[r].todo = local[r].todo \ {f}
          /\ local'[r].links = Links(g, f) /\ local'[r].folders = local[r].folders
        BY <1>0, <2>3 DEF StepsTyped, WorkType, Locals
    <2>6. g \in Named(NameOf[f])'
        BY <1>0, <2>3 DEF Named, GroupsTyped, GroupType
    <2>7. Links(g, f) = {g} \X (Content[f] \ Private)
        BY <2>4, LinksCover DEF CatalogInv
    <2>8. ASSUME NEW e \in local'[r].folders \ local'[r].todo
          PROVE  \E i \in Named(NameOf[e])' : {i} \X (Content[e] \ Private) \subseteq members' \cup local'[r].links
        <3>1. CASE e = f
            BY <2>5, <2>6, <2>7, <3>1
        <3>2. CASE e # f
            <4>1. Covered(e, local[r]) /\ NameOf[e] \in Names
                BY <1>0, <2>4, <2>5, <2>8, <3>2, SessionAssumption DEF FillOK
            <4> QED BY <2>3, <2>4, <4>1 DEF Covered
        <3> QED BY <3>1, <3>2
    <2>9. ASSUME NEW n \in Names, local'[r].known[n] # 0 PROVE local'[r].known[n] \in Named(n)'
        <3>1. CASE n = NameOf[f]
            BY <1>0, <2>5, <2>6, <3>1
        <3>2. CASE n # NameOf[f]
            BY <1>0, <2>3, <2>4, <2>5, <2>9, <3>2 DEF FillOK
        <3> QED BY <3>1, <3>2
    <2> QED BY <2>8, <2>9 DEF FillOK, Covered
<1>4. CASE AddFolderChat(r)
    <2>1. ~Ends(r)
        BY <1>0, EndsTyped
    <2>2. PICK m \in local[r].links : /\ AddChat(m[1], m[2])
                                      /\ GoesWith(r, "fill", [local[r] EXCEPT !.links = @ \ {m}])
        BY <1>4, <2>1 DEF AddFolderChat
    <2>3. m = <<m[1], m[2]>>
        BY <1>0, LocalParts
    <2>4. members' = members \cup {m}
        BY <2>2, <2>3 DEF AddChat
    <2>5. pc[r] = "fill" /\ r \notin edited /\ name' = name
        BY <1>4, <2>2 DEF AddFolderChat, GoesWith
    <2>6. /\ local'[r].known = local[r].known /\ local'[r].todo = local[r].todo
          /\ local'[r].links = local[r].links \ {m} /\ local'[r].folders = local[r].folders
        BY <1>0, <2>2 DEF GoesWith, StepsTyped, WorkType, Locals
    <2>7. members' \cup local'[r].links = members \cup local[r].links
        BY <2>2, <2>4, <2>6
    <2>8. \A n \in Names : Named(n)' = Named(n)
        BY <2>5 DEF Named
    <2>9. ASSUME NEW e \in local'[r].folders \ local'[r].todo
          PROVE  \E i \in Named(NameOf[e])' : {i} \X (Content[e] \ Private) \subseteq members' \cup local'[r].links
        <3>1. Covered(e, local[r]) /\ NameOf[e] \in Names
            BY <1>0, <2>5, <2>6, <2>9, SessionAssumption DEF FillOK
        <3> QED BY <2>7, <2>8, <3>1 DEF Covered
    <2>10. \A n \in Names : local'[r].known[n] # 0 => local'[r].known[n] \in Named(n)'
        BY <1>0, <2>5, <2>6, <2>8 DEF FillOK
    <2> QED BY <2>9, <2>10 DEF FillOK, Covered
<1> QED BY <1>1, <1>2, <1>3, <1>4, FillingSteps

LEMMA FillStep == TypeOK /\ CatalogInv /\ FillInv /\ [Next]_vars => FillInv'
<1> SUFFICES ASSUME TypeOK, CatalogInv, FillInv, [Next]_vars, NEW q \in Requests PROVE FillOK(q)'
    BY DEF FillInv
<1>0. FillOK(q) /\ local[q].folders \subseteq Folders
    BY TypeParts, LocalParts DEF FillInv
<1>1. ASSUME NEW r \in Requests, Acts(r) PROVE FillOK(q)'
    <2>1. CASE q = r
        BY <1>1, <2>1, FillMine DEF FillOK
    <2>2. CASE q # r
        <3>1. \A n \in Names : Named(n) \subseteq Named(n)'
            <4>1. CASE name' = name
                BY <4>1 DEF Named
            <4>2. CASE \E f \in Folders : FolderGroup(r, f)
                BY <4>2, NewName
            <4> QED BY <1>1, <4>1, <4>2, GroupsGrow
        <3>2. members \subseteq members'
            BY <1>1, GroupsGrow
        <3>3. pc'[q] = pc[q] /\ local'[q] = local[q] /\ (q \in edited => q \in edited')
            BY <1>1, <2>2, OthersStay
        <3> QED BY <1>0, <3>1, <3>2, <3>3, FillStays
    <2> QED BY <2>1, <2>2
<1>2. CASE OwnerNames \/ OwnerEdits
    BY <1>2 DEF OwnerNames, OwnerEdits, Filling, FillOK
<1>3. CASE Restart
    BY <1>3 DEF Restart, FillOK
<1>4. CASE UNCHANGED <<name, own, raced, catalog, stepVars>> /\ members \subseteq members'
    BY <1>0, <1>4, FillStays DEF stepVars, Named
<1> QED BY <1>1, <1>2, <1>3, <1>4, OwnerCases

LEMMA GroupsAlways == Spec => []GroupsInv
<1>1. Init => GroupsInv
    BY SourceGroupsAssumption DEF Init, GroupsInit, GroupsInv, NoTwinGroups, Exists, IndexInv, IndexOK, CatalogInv, FillInv, FillOK
<1>2. TypeOK /\ GroupsInv /\ [Next]_vars => GroupsInv'
    BY TwinStep, IndexStep, CatalogStep, FillStep DEF GroupsInv
<1> QED BY <1>1, <1>2, TypeCorrect, PTL DEF Spec

\* Syncs make one group of a name, unless one overtook another or the owner named a group
\* (sync.go: syncSourceGroups).
THEOREM OneGroupOfAName == Spec => []NoTwinGroups
<1>1. GroupsInv => NoTwinGroups
    BY DEF GroupsInv
<1> QED BY <1>1, GroupsAlways, PTL

\* A sync that reports success was told of no folder, or has put every folder into a group
\* of its name (sync.go: Sync, syncSourceGroups; client.go: ListFolders).
THEOREM SyncsFillGroups == Spec => SyncFillsGroups
<1> DEFINE A == \A r \in Requests : SaveConnection(r) /\ r \notin edited =>
                    \/ local[r].folders = {}
                    \/ \A f \in Folders : \E g \in Named(NameOf[f]) :
                          {g} \X (Content[f] \ Private) \subseteq members
<1>1. ASSUME TypeOK, GroupsInv, NEW r \in Requests, SaveConnection(r), r \notin edited, local[r].folders # {},
             NEW f \in Folders
      PROVE  \E g \in Named(NameOf[f]) : {g} \X (Content[f] \ Private) \subseteq members
    <2>1. local[r].folders = Folders
        BY <1>1, TypeParts, LocalParts
    <2>2. Covered(f, local[r]) /\ local[r].links = {}
        BY <1>1, <2>1 DEF SaveConnection, GroupsInv, FillInv, FillOK
    <2> QED BY <2>2 DEF Covered
<1>2. TypeOK /\ GroupsInv => [A]_vars
    BY <1>1
<1> QED BY <1>2, TypeCorrect, GroupsAlways, PTL DEF SyncFillsGroups
=============================================================================
