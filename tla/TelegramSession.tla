--------------------------- MODULE TelegramSession ---------------------------
(***************************************************************************)
(* The owner's Telegram session: login, status, deletion, sync and public  *)
(* channels (internal/telegram/tdlib/auth.go and sync.go), served by the   *)
(* API as requests that run at the same time.  They share the row of       *)
(* telegram_sessions, the client with its directory, and the source        *)
(* groups; only one call of the client and one statement is atomic.        *)
(***************************************************************************)
EXTENDS TelegramClient, SourceGroups

CONSTANTS
    Requests,
    Folders,
    NameOf,     \* the name of a folder
    Content,    \* its chats
    Private,    \* chats with a person
    Channels,   \* public channels
    MaxEvents   \* bound: faults, logouts on another device, and edits of groups

ASSUME SessionAssumption ==
    /\ NameOf \in [Folders -> Names]
    /\ Content \in [Folders -> SUBSET Chats]
    /\ Private \subseteq Chats
    /\ Channels \subseteq Chats \ Private
    /\ MaxEvents \in Nat

VARIABLES
    row,        \* status in telegram_sessions, or none
    client,
    \* each request
    pc,
    local,      \* its variables
    \* ghosts
    alone,      \* requests that met no other request
    edited,     \* syncs during which the owner changed groups
    overtaken,  \* syncs during which somebody else named a group
    raced,      \* groups made by these
    spoiled,    \* a deletion met another request, or a fault
    loggedOut,  \* the session was ended on another device, and the row does not show it
    events

sessionVars == <<row, client>>
stepVars    == <<pc, local, alone, edited, overtaken>>
restVars    == <<spoiled, loggedOut, events>>
vars == <<sessionVars, groupVars, stepVars, raced, restVars>>

Statuses == {"none", "authorizing", "connected", "disconnected"}

Login   == {"start", "phone", "code", "password", "askLogin", "ask", "saveLogin", "save"}
Delete  == {"stop", "forget", "remove"}
Syncing == {"check", "folders", "chats", "groups", "fill", "resolve", "attach"}
Control == {"idle"} \cup Login \cup Delete \cup Syncing

Busy(r) == pc[r] # "idle"

Locals == [seen    : AuthStates,                     \* the authorization state it was told
           target  : GroupIds \cup {0},              \* the group of a public channel, 0 for a sync
           folders : {{}, Folders},                  \* those the client named
           known   : [Names -> GroupIds \cup {0}],   \* groupByName
           todo    : SUBSET Folders,                 \* folders it has not come to
           links   : SUBSET (GroupIds \X Chats)]     \* chats to add to a group

NoLocals == [seen |-> "unknown", target |-> 0, folders |-> {}, known |-> [n \in Names |-> 0],
             todo |-> {}, links |-> {}]

sessionStatus(a) ==
    CASE a = "ready"  -> "connected"
      [] a = "closed" -> "disconnected"
      [] OTHER -> "authorizing"

Init == /\ row = "none"
        /\ client = NewNativeClient("none", "waitPhone")
        /\ GroupsInit
        /\ pc = [r \in Requests |-> "idle"]
        /\ local = [r \in Requests |-> NoLocals]
        /\ alone = {}
        /\ edited = {}
        /\ overtaken = {}
        /\ raced = {}
        /\ spoiled = FALSE
        /\ loggedOut = FALSE
        /\ events = 0

-----------------------------------------------------------------------------
\* A request arrives, goes on, goes on with a variable changed, ends.

Begins(r, l, x) ==
    /\ ~Busy(r)
    /\ pc' = [pc EXCEPT ![r] = l]
    /\ local' = [local EXCEPT ![r] = x]
    /\ alone' = IF \E q \in Requests : Busy(q) THEN {} ELSE {r}
    /\ UNCHANGED <<edited, overtaken>>

GoesWith(r, l, x) ==
    /\ pc' = [pc EXCEPT ![r] = l]
    /\ local' = [local EXCEPT ![r] = x]
    /\ UNCHANGED <<alone, edited, overtaken>>

Goes(r, l) == GoesWith(r, l, local[r])

Ends(r) ==
    /\ pc' = [pc EXCEPT ![r] = "idle"]
    /\ local' = [local EXCEPT ![r] = NoLocals]
    /\ alone' = alone \ {r}
    /\ edited' = edited \ {r}
    /\ overtaken' = overtaken \ {r}

\* A step of a request that leaves the groups alone.
Apart == UNCHANGED <<groupVars, raced, restVars>>

-----------------------------------------------------------------------------
\* AuthService: login and status.

Start(r) == /\ Begins(r, "start", NoLocals)
            /\ client' = MkdirAll(client)
            /\ Apart /\ UNCHANGED row

StartClient(r) == /\ pc[r] = "start"
                  /\ Goes(r, "askLogin")
                  /\ client' = Started(client)
                  /\ Apart /\ UNCHANGED row

\* Without a row the request ends.
Submit(r, input) == /\ row # "none"
                    /\ Begins(r, input, NoLocals)
                    /\ Apart /\ UNCHANGED sessionVars

SubmitToClient(r) ==
    /\ pc[r] \in {"phone", "code", "password"}
    /\ \E t \in Accepts(pc[r], Started(client).td) : client' = submitAuth(client, t)
    /\ Goes(r, "ask")
    /\ Apart /\ UNCHANGED row

SubmitRefused(r) ==
    /\ pc[r] \in {"phone", "code", "password"}
    /\ client' = sendAndWait(Started(client))
    /\ Ends(r)
    /\ Apart /\ UNCHANGED row

\* A variant that does not look for the row.
StatusUnstarted(r) == /\ Begins(r, "ask", NoLocals)
                      /\ Apart /\ UNCHANGED sessionVars

Status(r) == /\ row # "none"
             /\ Begins(r, "ask", NoLocals)
             /\ Apart /\ UNCHANGED sessionVars

AskState(r) == /\ pc[r] \in {"askLogin", "ask"}
               /\ client' = Started(client)
               /\ GoesWith(r, IF pc[r] = "ask" THEN "save" ELSE "saveLogin",
                           [local[r] EXCEPT !.seen = client'.authState])
               /\ Apart /\ UNCHANGED row

\* The row does not say connected any more, and no other request can say so again.
Settles(r) == loggedOut' = (loggedOut /\ (r \notin alone \/ row' = "connected"))

\* A variant that takes every code that was accepted for a connection.
SaveConnected(r) == /\ pc[r] \in {"saveLogin", "save"}
                    /\ row' = IF local[r].seen = "waitPassword" THEN "connected"
                              ELSE sessionStatus(local[r].seen)
                    /\ Ends(r)
                    /\ Settles(r)
                    /\ UNCHANGED <<client, groupVars, raced, spoiled, events>>

SaveState(r) == /\ pc[r] \in {"saveLogin", "save"}
                /\ row' = sessionStatus(local[r].seen)
                /\ Ends(r)
                /\ Settles(r)
                /\ UNCHANGED <<client, groupVars, raced, spoiled, events>>

-----------------------------------------------------------------------------
\* AuthService: deletion.

DeleteSession(r) == /\ row # "none"
                    /\ Begins(r, "stop", NoLocals)
                    /\ Apart /\ UNCHANGED sessionVars

StopClient(r) == /\ pc[r] = "stop"
                 /\ client' = Stopped(client)
                 /\ IF StopSucceeds(client) THEN Goes(r, "forget") ELSE Ends(r)
                 /\ Apart /\ UNCHANGED row

DeleteRow(r) == /\ pc[r] = "forget"
                /\ row' = "none"
                /\ spoiled' = (spoiled \/ r \notin alone)
                /\ Goes(r, "remove")
                /\ Settles(r)
                /\ UNCHANGED <<client, groupVars, raced, events>>

\* A variant that leaves the directory.
RemoveNothing(r) == /\ pc[r] = "remove"
                    /\ spoiled' = (r \notin alone)
                    /\ Ends(r)
                    /\ UNCHANGED <<sessionVars, groupVars, raced, loggedOut, events>>

\* Whatever handle is open by now, its files are gone.
RemoveAll(r) == /\ pc[r] = "remove"
                /\ client' = [client EXCEPT !.files = "none"]
                /\ spoiled' = (r \notin alone)
                /\ Ends(r)
                /\ UNCHANGED <<row, groupVars, raced, loggedOut, events>>

-----------------------------------------------------------------------------
\* SyncService: what Telegram has.

\* readyClient looks at the row and then at the client.
Connected(r, t) == /\ row = "connected"
                   /\ Begins(r, "check", [NoLocals EXCEPT !.target = t])
                   /\ Apart /\ UNCHANGED sessionVars

Sync(r) == Connected(r, 0)

AddPublicChannel(r, g) == Exists(g) /\ Connected(r, g)

readyClient(r) ==
    /\ pc[r] = "check"
    /\ client' = Started(client)
    /\ IF client'.authState # "ready" THEN Ends(r)
       ELSE Goes(r, IF local[r].target = 0 THEN "folders" ELSE "resolve")
    /\ Apart /\ UNCHANGED row

\* A client that has not heard of the folders names none, which is no error.
SyncFolders(r) ==
    /\ pc[r] = "folders"
    /\ client' \in ListFolders(client)
    /\ GoesWith(r, "chats", [local[r] EXCEPT !.folders = IF client'.cached THEN Folders ELSE {}])
    /\ Apart /\ UNCHANGED row

AllChats == (UNION {Content[f] : f \in Folders}) \cup Channels

Stores(r, cs) ==
    /\ pc[r] = "chats"
    /\ client' = loadChats(client)
    /\ IF Answers(client') THEN UpsertMany(cs) /\ Goes(r, "groups")
       ELSE catalog' = catalog /\ Ends(r)
    /\ UNCHANGED <<row, name, created, members, own, raced, restVars>>

\* The main list and the archive, which hold the chats of the folders too, without
\* the personal chats.
SyncChats(r) == Stores(r, AllChats \ Private)

-----------------------------------------------------------------------------
\* SyncService.syncSourceGroups.

\* Of two groups with one name the last of the list is taken.
IsIndex(k) == \A n \in Names : IF Named(n) = {} THEN k[n] = 0 ELSE k[n] \in Named(n)

ListGroups(r) ==
    /\ pc[r] = "groups"
    /\ \E k \in [Names -> GroupIds \cup {0}] :
          /\ IsIndex(k)
          /\ GoesWith(r, "fill", [local[r] EXCEPT !.known = k, !.todo = local[r].folders])
    /\ Apart /\ UNCHANGED sessionVars

NextFolder(r, f) == pc[r] = "fill" /\ local[r].links = {} /\ f \in local[r].todo

\* The chats of a folder that may be in a group.
Links(g, f) == {g} \X ((Content[f] \cap catalog) \ Private)

KnownGroup(r, f) ==
    LET g == local[r].known[NameOf[f]]
    IN  /\ NextFolder(r, f)
        /\ g # 0
        /\ GoesWith(r, "fill", [local[r] EXCEPT !.links = Links(g, f), !.todo = @ \ {f}])
        /\ Apart /\ UNCHANGED sessionVars

Filling == {r \in Requests : pc[r] = "fill"}

\* The other syncs now work on a list without this group.
Overtakes(r) == overtaken' = overtaken \cup (Filling \ {r})

\* A sync makes the group of a folder and goes on with x.
NewGroup(r, f, x) ==
    /\ NextFolder(r, f)
    /\ local[r].known[NameOf[f]] = 0
    /\ Create(NameOf[f])
    /\ local' = [local EXCEPT ![r] = x]
    /\ Overtakes(r)
    /\ raced' = IF r \in overtaken THEN raced \cup {created'} ELSE raced
    /\ UNCHANGED <<sessionVars, members, catalog, own, pc, alone, edited, restVars>>

\* Variants that do not note the group they made, and that leave it empty.
FolderGroupUnnoted(r, f) ==
    NewGroup(r, f, [local[r] EXCEPT !.links = Links(created', f), !.todo = @ \ {f}])

FolderGroupEmpty(r, f) ==
    NewGroup(r, f, [local[r] EXCEPT !.known[NameOf[f]] = created', !.todo = @ \ {f}])

FolderGroup(r, f) ==
    NewGroup(r, f, [local[r] EXCEPT !.known[NameOf[f]] = created',
                                    !.links = Links(created', f), !.todo = @ \ {f}])

\* An insert that fails, which is how the bound on groups shows.
CreateFails(r) ==
    /\ \E f \in local[r].todo : NextFolder(r, f) /\ local[r].known[NameOf[f]] = 0
    /\ created = MaxGroups
    /\ Ends(r)
    /\ Apart /\ UNCHANGED sessionVars

AddFolderChat(r) ==
    /\ pc[r] = "fill"
    /\ \E m \in local[r].links :
          IF Exists(m[1]) THEN /\ AddChat(m[1], m[2])
                               /\ GoesWith(r, "fill", [local[r] EXCEPT !.links = @ \ {m}])
          ELSE members' = members /\ Ends(r)
    /\ UNCHANGED <<sessionVars, name, created, catalog, own, raced, restVars>>

SaveConnection(r) == /\ pc[r] = "fill"
                     /\ local[r].todo = {} /\ local[r].links = {}
                     /\ row' = "connected"
                     /\ Ends(r)
                     /\ Apart /\ UNCHANGED client

\* The channel is found and stored, and then linked to the group.
ResolvePublicChat(r) ==
    /\ pc[r] = "resolve"
    /\ client' = sendAndWait(client)
    /\ \/ /\ Answers(client') /\ Exists(local[r].target)
          /\ \E c \in Channels :
                /\ UpsertMany({c})
                /\ GoesWith(r, "attach", [local[r] EXCEPT !.links = {<<local[r].target, c>>}])
       \/ catalog' = catalog /\ Ends(r)
    /\ UNCHANGED <<row, name, created, members, own, raced, restVars>>

AttachChannel(r) ==
    /\ pc[r] = "attach"
    /\ \E m \in local[r].links :
          IF Exists(m[1]) THEN AddChat(m[1], m[2]) ELSE members' = members
    /\ Ends(r)
    /\ UNCHANGED <<sessionVars, name, created, catalog, own, raced, restVars>>

-----------------------------------------------------------------------------
\* The owner edits groups, Telegram ends the session, things fail.

Event == events < MaxEvents /\ events' = events + 1

OwnerNames == /\ Event
              /\ \/ \E n \in Names : CreateGroup(n)
                 \/ \E g \in GroupIds, n \in Names : UpdateGroup(g, n)
              /\ edited' = edited \cup Filling
              /\ overtaken' = overtaken \cup Filling
              /\ UNCHANGED <<sessionVars, pc, local, alone, raced, spoiled, loggedOut>>

OwnerEdits == /\ Event
              /\ \/ \E g \in GroupIds : DeleteGroup(g)
                 \/ \E g \in GroupIds, c \in Chats : RemoveGroupChat(g, c)
              /\ edited' = edited \cup Filling
              /\ UNCHANGED <<sessionVars, pc, local, alone, overtaken, raced, spoiled, loggedOut>>

OwnerAdds == /\ Event
             /\ \E g \in GroupIds, c \in Chats : AddGroupChat(g, c)
             /\ UNCHANGED <<sessionVars, stepVars, raced, spoiled, loggedOut>>

LogOut == /\ Event
          /\ client.handle /\ client.td = "ready"
          /\ client' = LoggedOut(client)
          /\ loggedOut' = TRUE
          /\ UNCHANGED <<row, groupVars, stepVars, raced, spoiled>>

Fault == /\ Event
         /\ spoiled' = TRUE
         /\ UNCHANGED <<row, groupVars, raced, loggedOut>>

\* A call of the client runs out of time, a statement or the file system fails.
Fails(r) == /\ Busy(r)
            /\ client' \in {client, ensureHandle(client)}
            /\ Ends(r)
            /\ Fault

AnswerLost(r) ==
    /\ pc[r] \in {"phone", "code", "password"}
    /\ \E t \in Accepts(pc[r], Started(client).td) : client' = Unanswered(client, t)
    /\ Ends(r)
    /\ Fault

Restart == /\ client' = NewNativeClient(client.files, client.td)
           /\ pc' = [r \in Requests |-> "idle"]
           /\ local' = [r \in Requests |-> NoLocals]
           /\ alone' = {}
           /\ edited' = {}
           /\ overtaken' = {}
           /\ Fault

-----------------------------------------------------------------------------
Arrives(r) == \/ Start(r)
              \/ \E input \in {"phone", "code", "password"} : Submit(r, input)
              \/ Status(r)
              \/ DeleteSession(r)
              \/ Sync(r)
              \/ \E g \in GroupIds : AddPublicChannel(r, g)

SessionStep(r) == \/ StartClient(r) \/ SubmitToClient(r) \/ SubmitRefused(r)
                  \/ AskState(r) \/ SaveState(r)
                  \/ StopClient(r) \/ DeleteRow(r) \/ RemoveAll(r)

SyncStep(r) == \/ readyClient(r) \/ SyncFolders(r) \/ SyncChats(r) \/ ListGroups(r)
               \/ \E f \in Folders : KnownGroup(r, f) \/ FolderGroup(r, f)
               \/ CreateFails(r) \/ AddFolderChat(r) \/ SaveConnection(r)
               \/ ResolvePublicChat(r) \/ AttachChannel(r)

Next == \/ \E r \in Requests : Arrives(r) \/ SessionStep(r) \/ SyncStep(r) \/ Fails(r) \/ AnswerLost(r)
        \/ OwnerNames \/ OwnerEdits \/ OwnerAdds
        \/ LogOut \/ Restart

Spec == Init /\ [][Next]_vars
=============================================================================
