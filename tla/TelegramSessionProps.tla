------------------------ MODULE TelegramSessionProps ------------------------
(***************************************************************************)
(* What the Telegram session and the synced groups must get right.         *)
(***************************************************************************)
EXTENDS TelegramSession

GroupType == /\ name \in [GroupIds -> Names \cup {NoName}]
             /\ created \in 0..MaxGroups
             /\ members \subseteq GroupIds \X Chats
             /\ catalog \subseteq Chats
             /\ own \subseteq GroupIds

WorkType == /\ pc \in [Requests -> Control]
            /\ local \in [Requests -> Locals]
            /\ \A r \in Requests : pc[r] = "resolve" => local[r].target # 0

GhostType == /\ alone \subseteq Requests
             /\ edited \subseteq Requests
             /\ overtaken \subseteq Requests
             /\ raced \subseteq GroupIds
             /\ spoiled \in BOOLEAN
             /\ loggedOut \in BOOLEAN
             /\ events \in Nat

\* Row, client, groups and requests hold values of their types, and no id is used
\* before its group is created.
TypeOK == /\ row \in Statuses
          /\ client \in Client
          /\ GroupType /\ WorkType /\ GhostType
          /\ \A g \in GroupIds : Exists(g) => g <= created

Quiet == \A r \in Requests : ~Busy(r)

\* README.md:120: the session is deleted as a whole.  When no request is under way
\* and there is no row, neither a TDLib handle nor the directory is left, unless
\* the last deletion met another request or something failed.
NothingLeftBehind ==
    Quiet /\ row = "none" /\ ~spoiled => ~client.handle /\ client.files = "none"

\* A row says connected only of a TDLib that is authorized and whose database is
\* in the directory, so that sync and collection find it after a restart too;
\* unless a deletion met another request or a call failed.  Telegram may also end
\* the session: nobody tells the row, which may go on to say so until a request that
\* meets no other one writes it or deletes it; from then on it may not.
ConnectedIsReady ==
    row = "connected" /\ ~spoiled /\ ~loggedOut => client.td = "ready" /\ client.files = "saved"

\* A deleted session comes back by a login only: by /connect, or by a request that
\* had found the row before it was deleted.
BackByLoginOnly ==
    [][row = "none" /\ row' # "none" =>
        \E r \in Requests : (pc[r] = "saveLogin" \/ r \notin alone) /\ pc'[r] = "idle" /\ Busy(r)]_vars

\* Syncs make one group of a name, however many folders have it and however often
\* they run; a second one needs an owner who named it, or a sync that was
\* overtaken by another while it worked on its list.
NoTwinGroups ==
    \A g, h \in GroupIds \ (own \cup raced) : Exists(g) /\ name[g] = name[h] => g = h

\* A sync that reports success has put the chats of every folder into a group of
\* its name, unless the owner changed the groups meanwhile, or the client had not
\* heard of the folders by the end of its wait: then it works on none of them and
\* reports success all the same, with zero folders.
SyncFillsGroups ==
    [][\A r \in Requests : SaveConnection(r) /\ r \notin edited =>
        \/ local[r].folders = {}
        \/ \A f \in Folders : \E g \in Named(NameOf[f]) :
              {g} \X (Content[f] \ Private) \subseteq members]_vars
=============================================================================
