------------------------------- MODULE Digest -------------------------------
(***************************************************************************)
(* From Telegram messages to saved summaries: CollectGroup                 *)
(* (internal/collection/service.go), GenerateFromCollection                *)
(* (internal/summary/service.go) and the read_positions they share.        *)
(*                                                                         *)
(* A run is one client of the two services: a scheduled pipeline in a      *)
(* worker, or a collection and then a summary asked for over HTTP.  Runs   *)
(* of the same source group are concurrent, and nothing but the database   *)
(* is shared between them.  A message is its chat and its identifier;      *)
(* identifiers of a chat grow with time.                                   *)
(***************************************************************************)
EXTENDS Integers

CONSTANTS
    Chats,          \* the enabled, non-private chats of the group
    Runs,
    Modes,          \* the collection modes the runs are started with
    Limit,          \* messages asked for of each chat (100 in a scheduled pipeline)
    Repeats,        \* whether a collection may be summarised again
    MaxMessages,    \* bound: messages per chat
    MaxListed,      \* bound: summaries of one message that are told apart
    MaxFaults,      \* bound: crashes and failed calls
    MaxCuts         \* bound: answers of Telegram that are shorter than they could be

AllModes == {"new_only", "unread", "recent", "latest_n"}

ASSUME DigestAssumption ==
    /\ Modes \subseteq AllModes
    /\ Limit \in Nat \ {0}
    /\ Repeats \in BOOLEAN
    /\ MaxMessages \in Nat
    /\ MaxListed \in Nat \ {0}
    /\ MaxFaults \in Nat
    /\ MaxCuts \in Nat

VARIABLES
    \* Telegram
    posted,     \* the newest message of each chat, 0 for none
    kind,       \* what the messages are: worth reading, dropped by the filter, without text
    viewed,     \* the newest message the owner's account has read
    \* the database
    position,   \* last_summarized_message_id, 0 for no row
    listed,     \* how many saved summaries a message went into, kept or dropped by the filter
    stored,     \* the collection jobs, kept where Repeats may ask for them
    missed,     \* messages a position has passed although its run never saw them
    \* each run
    pc, mode, quota,
    batch,      \* the messages collected: in memory while collecting, then the rows of its job
    gap,        \* the messages with text after the position that the run did not see
    todo,       \* the chats left to fetch, or to mark
    chat,       \* the chat whose position was found to be behind
    found,      \* that position, as it was found
    faults, cuts

telegram == <<posted, kind, viewed>>
work     == <<mode, quota, batch, gap>>
marker   == <<chat, found>>
budget   == <<faults, cuts>>
run      == <<pc, work, todo, marker>>
vars     == <<telegram, position, listed, stored, missed, run, budget>>

Ids      == 1..MaxMessages
Messages == Chats \X Ids
Kinds    == {"news", "dull", "blank"}
Control  == {"idle", "collecting", "collected", "marking", "advancing", "viewing"}

Digested == {x \in Messages : listed[x] > 0}

\* Chat c has a message in the batch, and n is the newest of them.
InBatch(r, c)   == \E n \in Ids : <<c, n>> \in batch[r]
Newest(r, c, n) == <<c, n>> \in batch[r] /\ \A m \in Ids : <<c, m>> \in batch[r] => m <= n

Init == /\ posted   = [c \in Chats |-> 0]
        /\ kind     = [x \in Messages |-> "blank"]
        /\ viewed   = [c \in Chats |-> 0]
        /\ position = [c \in Chats |-> 0]
        /\ listed   = [x \in Messages |-> 0]
        /\ stored   = {}
        /\ missed   = {}
        /\ pc       = [r \in Runs |-> "idle"]
        /\ mode     = [r \in Runs |-> "new_only"]
        /\ quota    = [r \in Runs |-> [c \in Chats |-> 0]]
        /\ batch    = [r \in Runs |-> {}]
        /\ gap      = [r \in Runs |-> {}]
        /\ todo     = [r \in Runs |-> {}]
        /\ chat     \in [Runs -> Chats]
        /\ found    = [r \in Runs |-> 0]
        /\ faults   = 0
        /\ cuts     = 0

-----------------------------------------------------------------------------
\* Telegram.

Post(c, k) ==
    /\ posted[c] < MaxMessages
    /\ posted' = [posted EXCEPT ![c] = @ + 1]
    /\ kind'   = [kind EXCEPT ![<<c, posted[c] + 1>>] = k]
    /\ UNCHANGED <<viewed, position, listed, stored, missed, run, budget>>

\* The owner reads the chat in a Telegram client.
Read(c) ==
    /\ "unread" \in Modes
    /\ viewed' = [viewed EXCEPT ![c] = posted[c]]
    /\ UNCHANGED <<posted, kind, position, listed, stored, missed, run, budget>>

-----------------------------------------------------------------------------
\* CollectGroup.

Fault == faults < MaxFaults /\ faults' = faults + 1 /\ UNCHANGED cuts

\* The run ends, well or not; what it held in memory is gone.
Stop(r) == /\ pc'    = [pc EXCEPT ![r] = "idle"]
           /\ todo'  = [todo EXCEPT ![r] = {}]
           /\ batch' = [batch EXCEPT ![r] = {}]
           /\ gap'   = [gap EXCEPT ![r] = {}]
           /\ UNCHANGED <<mode, quota, marker>>

\* unread asks for as many messages as the chat had unread when the run began.
collectionLimit(m) == [c \in Chats |-> IF m = "unread" THEN posted[c] - viewed[c] ELSE Limit]

StartCollect(r, m) ==
    /\ pc[r] = "idle"
    /\ pc'    = [pc EXCEPT ![r] = "collecting"]
    /\ mode'  = [mode EXCEPT ![r] = m]
    /\ quota' = [quota EXCEPT ![r] = collectionLimit(m)]
    /\ batch' = [batch EXCEPT ![r] = {}]
    /\ gap'   = [gap EXCEPT ![r] = {}]
    /\ todo'  = [todo EXCEPT ![r] = Chats]
    /\ UNCHANGED <<telegram, position, listed, stored, missed, marker, budget>>

\* getChatHistory returns the newest messages, whatever message it is asked to
\* start from.
History(c, n) == {m \in 1..posted[c] : m > posted[c] - n}

\* Variants that do not look at the position, and that skip a message after it.
skipRepeated(r, c, m, since) == \/ kind[<<c, m>>] = "blank"
                                \/ m <= since
skipOneMore(r, c, m, since) == \/ kind[<<c, m>>] = "blank"
                               \/ mode[r] = "new_only" /\ m <= position[c] + 1
                               \/ mode[r] = "recent" /\ m <= since

shouldSkipMessage(r, c, m, since) ==
    \/ kind[<<c, m>>] = "blank"
    \/ mode[r] = "new_only" /\ m <= position[c]
    \/ mode[r] = "recent" /\ m <= since

\* What has text and is after the position, and neither answered nor inside the
\* time window.
Unseen(c, answer, since) ==
    {<<c, m>> : m \in {n \in 1..posted[c] : /\ n > position[c] /\ kind[<<c, n>>] # "blank"
                                            /\ n \notin answer \/ n <= since}}

\* Telegram answers with the n newest messages.  since is the last message older
\* than the mode's time window.
Answered(r, c, n) ==
    /\ pc[r] = "collecting" /\ c \in todo[r]
    /\ \E since \in IF mode[r] = "recent" THEN 0..posted[c] ELSE {0} :
          /\ batch' = [batch EXCEPT ![r] = @ \cup
                         {<<c, m>> : m \in {i \in History(c, n) :
                                               ~shouldSkipMessage(r, c, i, since)}}]
          /\ gap' = [gap EXCEPT ![r] = @ \cup Unseen(c, History(c, n), since)]
    /\ todo' = [todo EXCEPT ![r] = @ \ {c}]
    /\ UNCHANGED <<telegram, position, listed, stored, missed, pc, mode, quota, marker, faults>>

CollectChat(r, c) == Answered(r, c, quota[r][c]) /\ UNCHANGED cuts

\* TDLib may answer with fewer messages than it was asked for.  The one call is
\* not repeated and its length not looked at.
CollectShort(r, c) ==
    /\ cuts < MaxCuts /\ cuts' = cuts + 1
    /\ \E n \in 0..posted[c] : n < quota[r][c] /\ n < posted[c] /\ Answered(r, c, n)

\* AddMessages commits every message of the job at once; a collection without
\* messages ends the run.
StoreCollection(r) ==
    /\ pc[r] = "collecting" /\ todo[r] = {}
    /\ IF batch[r] = {} THEN Stop(r)
       ELSE pc' = [pc EXCEPT ![r] = "collected"] /\ UNCHANGED <<work, todo, marker>>
    /\ stored' = IF Repeats /\ batch[r] # {}
                 THEN stored \cup {[batch |-> batch[r], gap |-> gap[r]]}
                 ELSE stored
    /\ UNCHANGED <<telegram, position, listed, missed, budget>>

\* Telegram or the database fails: the job is marked failed and the caller told.
CollectFails(r) ==
    /\ pc[r] = "collecting"
    /\ Fault
    /\ Stop(r)
    /\ UNCHANGED <<telegram, position, listed, stored, missed>>

-----------------------------------------------------------------------------
\* GenerateFromCollection.

NoNews(r) == \A x \in batch[r] : kind[x] # "news"

\* "no messages left after filtering" is an error, before anything is marked.
NothingLeft(r) ==
    /\ pc[r] = "collected" /\ NoNews(r)
    /\ Stop(r)
    /\ UNCHANGED <<telegram, position, listed, stored, missed, budget>>

List(r) == listed' = [x \in Messages |-> IF x \in batch[r] /\ listed[x] < MaxListed
                                         THEN listed[x] + 1 ELSE listed[x]]

\* A variant that goes on to the positions although nothing is saved.
MarkOnly(r) ==
    /\ pc[r] = "collected" /\ ~NoNews(r)
    /\ pc'   = [pc EXCEPT ![r] = "marking"]
    /\ todo' = [todo EXCEPT ![r] = {c \in Chats : InBatch(r, c)}]
    /\ UNCHANGED <<telegram, position, listed, stored, missed, work, marker, budget>>

\* CreateSummary commits the summary with its topics and excluded messages.
CreateSummary(r) ==
    /\ pc[r] = "collected" /\ ~NoNews(r)
    /\ List(r)
    /\ pc'   = [pc EXCEPT ![r] = "marking"]
    /\ todo' = [todo EXCEPT ![r] = {c \in Chats : InBatch(r, c)}]
    /\ UNCHANGED <<telegram, position, stored, missed, work, marker, budget>>

\* The model or the database fails, or the summary is saved and the status of
\* its job is not: the caller is told of an error and nothing is marked.
SummaryFails(r) ==
    /\ pc[r] = "collected"
    /\ Fault
    /\ UNCHANGED listed \/ (~NoNews(r) /\ List(r))
    /\ Stop(r)
    /\ UNCHANGED <<telegram, position, stored, missed>>

\* A variant that does not compare the position with the batch.
FindAnyPosition(r, c) ==
    /\ pc[r] = "marking" /\ c \in todo[r]
    /\ todo' = [todo EXCEPT ![r] = @ \ {c}]
    /\ chat' = [chat EXCEPT ![r] = c]
    /\ found' = [found EXCEPT ![r] = position[c]]
    /\ pc'   = [pc EXCEPT ![r] = "advancing"]
    /\ UNCHANGED <<telegram, position, listed, stored, missed, work, budget>>

\* markReadPositions finds the position of a chat, and in a second statement
\* writes the newest message of the batch if it is ahead.
FindPosition(r, c) ==
    /\ pc[r] = "marking" /\ c \in todo[r]
    /\ todo' = [todo EXCEPT ![r] = @ \ {c}]
    /\ IF \E n \in Ids : Newest(r, c, n) /\ position[c] >= n
       THEN UNCHANGED <<pc, marker>>
       ELSE /\ pc'   = [pc EXCEPT ![r] = "advancing"]
            /\ chat' = [chat EXCEPT ![r] = c]
            /\ found' = [found EXCEPT ![r] = position[c]]
    /\ UNCHANGED <<telegram, position, listed, stored, missed, work, budget>>

\* Every message up to n counts as summarised, those the run did not see too.
Advance(r, c, n) == /\ position' = [position EXCEPT ![c] = n]
                    /\ missed' = missed \cup {x \in gap[r] : x[1] = c /\ x[2] <= n}

\* A variant that writes the newest message of the chat, not of the batch.
UpsertPosted(r) ==
    /\ pc[r] = "advancing"
    /\ Advance(r, chat[r], posted[chat[r]])
    /\ pc' = [pc EXCEPT ![r] = "marking"]
    /\ UNCHANGED <<telegram, listed, stored, work, todo, marker, budget>>

UpsertPosition(r) ==
    /\ pc[r] = "advancing"
    /\ \E n \in Ids : Newest(r, chat[r], n) /\ Advance(r, chat[r], n)
    /\ pc' = [pc EXCEPT ![r] = "marking"]
    /\ UNCHANGED <<telegram, listed, stored, work, todo, marker, budget>>

EndMarking(r) ==
    /\ pc[r] = "marking" /\ todo[r] = {}
    /\ pc' = [pc EXCEPT ![r] = "viewing"]
    /\ UNCHANGED <<telegram, position, listed, stored, missed, work, todo, marker, budget>>

\* A failure is logged, the other chats stay as they are, and the run goes on.
MarkFails(r) ==
    /\ pc[r] \in {"marking", "advancing"}
    /\ Fault
    /\ pc'   = [pc EXCEPT ![r] = "viewing"]
    /\ todo' = [todo EXCEPT ![r] = {}]
    /\ UNCHANGED <<telegram, position, listed, stored, missed, work, marker>>

\* The newest of the messages sent to viewMessages becomes the last one read.
View(r, S) ==
    viewed' = [c \in Chats |-> IF c \in S /\ \E n \in Ids : Newest(r, c, n) /\ n > viewed[c]
                               THEN CHOOSE n \in Ids : Newest(r, c, n)
                               ELSE viewed[c]]

ViewMessages(r) ==
    /\ pc[r] = "viewing"
    /\ View(r, Chats)
    /\ Stop(r)
    /\ UNCHANGED <<posted, kind, position, listed, stored, missed, budget>>

\* The first chat that fails ends it, and is logged.
ViewFails(r) ==
    /\ pc[r] = "viewing"
    /\ Fault
    /\ \E S \in SUBSET Chats : View(r, S)
    /\ Stop(r)
    /\ UNCHANGED <<posted, kind, position, listed, stored, missed>>

\* A summary of any collection job is asked for, by a request that names it or
\* by a summary_generation job that does.
Repeat(r) ==
    /\ pc[r] = "idle"
    /\ \E j \in stored : /\ batch' = [batch EXCEPT ![r] = j.batch]
                        /\ gap'   = [gap EXCEPT ![r] = j.gap]
    /\ pc' = [pc EXCEPT ![r] = "collected"]
    /\ UNCHANGED <<telegram, position, listed, stored, missed, mode, quota, todo, marker, budget>>

\* The process dies.
Crash(r) ==
    /\ pc[r] # "idle"
    /\ Fault
    /\ Stop(r)
    /\ UNCHANGED <<telegram, position, listed, stored, missed>>

-----------------------------------------------------------------------------
CollectGroup(r) == \/ \E c \in Chats : CollectChat(r, c)
                   \/ StoreCollection(r)

GenerateFromCollection(r) == \/ NothingLeft(r) \/ CreateSummary(r)
                             \/ \E c \in Chats : FindPosition(r, c)
                             \/ UpsertPosition(r) \/ EndMarking(r)
                             \/ ViewMessages(r)

Fails(r) == CollectFails(r) \/ SummaryFails(r) \/ MarkFails(r) \/ ViewFails(r) \/ Crash(r)

Next == \/ \E c \in Chats : Read(c) \/ \E k \in Kinds : Post(c, k)
        \/ \E r \in Runs : \/ \E m \in Modes : StartCollect(r, m)
                           \/ CollectGroup(r)
                           \/ \E c \in Chats : CollectShort(r, c)
                           \/ GenerateFromCollection(r)
                           \/ Repeat(r)
                           \/ Fails(r)

\* A schedule that is due starts a run again and again (the scheduler polls every
\* minute), and the calls of a run return.  What a short answer leaves out is not
\* left out for ever: TDLib loads it in the meantime.
Fairness == \A r \in Runs : /\ WF_vars(\E m \in Modes : StartCollect(r, m))
                            /\ WF_vars(CollectGroup(r))
                            /\ WF_vars(GenerateFromCollection(r))

Spec     == Init /\ [][Next]_vars
FairSpec == Spec /\ Fairness
=============================================================================
