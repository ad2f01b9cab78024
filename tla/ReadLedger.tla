----------------------------- MODULE ReadLedger -----------------------------
(***************************************************************************)
(* What read positions promise the reader of the summaries: every chat is  *)
(* a list with a mark, and a message below a mark is in a summary, or was  *)
(* written off in the moment the mark passed it.  Nothing is said of       *)
(* collections, runs or statements.                                        *)
(***************************************************************************)
EXTENDS Integers

CONSTANTS Chats, Ids

VARIABLES
    texts,      \* the messages that have been posted and have text
    digested,   \* the messages in saved summaries
    lost,       \* those that a mark has passed and no collection saw before
    mark        \* of each chat

vars == <<texts, digested, lost, mark>>

Init == /\ texts = {}
        /\ digested = {}
        /\ lost = {}
        /\ mark = [c \in Chats |-> 0]

\* Messages are posted after the mark.
Post(c, m) == /\ m > mark[c]
              /\ texts' = texts \cup {<<c, m>>}
              /\ UNCHANGED <<digested, lost, mark>>

Digest(S) == /\ S \subseteq texts
             /\ digested' = digested \cup S
             /\ UNCHANGED <<texts, lost, mark>>

Below(c, n) == {x \in texts : x[1] = c /\ x[2] <= n}

\* The mark is moved, and what it passes without a summary is written off.
Move(c, n, S) == /\ S \subseteq Below(c, n)
                 /\ Below(c, n) \subseteq digested \cup lost \cup S
                 /\ mark' = [mark EXCEPT ![c] = n]
                 /\ lost' = lost \cup S
                 /\ UNCHANGED <<texts, digested>>

Next == \/ \E c \in Chats, m \in Ids : Post(c, m)
        \/ \E c \in Chats, n \in Ids : \E S \in SUBSET texts : Move(c, n, S)
        \/ \E S \in SUBSET texts : Digest(S)

Spec == Init /\ [][Next]_vars
=============================================================================
