---------------------------- MODULE SourceGroups ----------------------------
(***************************************************************************)
(* The source groups of the owner and the chats in them                    *)
(* (internal/sourcegroups/service.go, storage/postgres/source_groups.go    *)
(* and telegram.go).  A service call is one statement after lookups that   *)
(* can only turn it into an error, so each is one action.                  *)
(*                                                                         *)
(* A name stands for the names that are alike to normalizeGroupName.       *)
(***************************************************************************)
EXTENDS Integers, FiniteSets

CONSTANTS
    Names,
    NoName,
    Chats,
    MaxGroups   \* bound: groups ever created

ASSUME SourceGroupsAssumption == NoName \notin Names /\ MaxGroups \in Nat

VARIABLES
    name,       \* of each group; NoName for an id without a row
    created,    \* groups created so far
    members,    \* source_group_chats
    catalog,    \* telegram_chats
    own         \* ghost: groups the owner has named

groupVars == <<name, created, members, catalog, own>>

GroupIds == 1..MaxGroups

GroupsInit == /\ name = [g \in GroupIds |-> NoName]
              /\ created = 0
              /\ members = {}
              /\ catalog = {}
              /\ own = {}

\* requireGroup and requireChat
Exists(g) == name[g] # NoName
Stored(c) == c \in catalog

Named(n)  == {g \in GroupIds : name[g] = n}

\* Create has no check for the name.
Create(n) == /\ created < MaxGroups
             /\ created' = created + 1
             /\ name' = [name EXCEPT ![created + 1] = n]

\* The foreign key refuses a group that is gone; a second link is the first.
AddChat(g, c) == Exists(g) /\ members' = members \cup {<<g, c>>}

UpsertMany(cs) == catalog' = catalog \cup cs

-----------------------------------------------------------------------------
\* The owner.

CreateGroup(n) == /\ Create(n)
                  /\ own' = own \cup {created'}
                  /\ UNCHANGED <<members, catalog>>

UpdateGroup(g, n) == /\ Exists(g)
                     /\ name' = [name EXCEPT ![g] = n]
                     /\ own' = own \cup {g}
                     /\ UNCHANGED <<created, members, catalog>>

\* The rows of source_group_chats go with it.
DeleteGroup(g) == /\ Exists(g)
                  /\ name' = [name EXCEPT ![g] = NoName]
                  /\ members' = {m \in members : m[1] # g}
                  /\ UNCHANGED <<created, catalog, own>>

AddGroupChat(g, c) == /\ Stored(c)
                      /\ AddChat(g, c)
                      /\ UNCHANGED <<name, created, catalog, own>>

RemoveGroupChat(g, c) == /\ Exists(g)
                         /\ members' = members \ {<<g, c>>}
                         /\ UNCHANGED <<name, created, catalog, own>>
=============================================================================
